---- MODULE Spec2Model ----
(***************************************************************************)
(* Order-lifecycle reconciliation of the Polysport trading bot.            *)
(*                                                                         *)
(* Units.  Prices are integers in hundredths of a cent ("cc", 2500 = 25    *)
(* cents = 0.25 USD), share quantities are integers in hundredths of a     *)
(* share ("h", 10 = 0.1 share) and USD amounts are integers in 1e-6 USD    *)
(* (cc * h), so that amount = price * size and size = amount \div price.   *)
(* Time is counted in whole days.  Venue order ids are 1, 2, 3, ... in the *)
(* order the venue hands them out; 0 stands for None.                      *)
(***************************************************************************)
EXTENDS Integers, Sequences, FiniteSets, TLC

\* ------------------------------------------------------------------ bounds
MaxOrders == 3
MaxNow == 8
MaxTicks == 3
MaxVenueEvents == 2
MaxFailures == 1
MaxLedgerSteps == 3
MaxCacheSteps == 3
MaxQueueSteps == 3
MaxStoreSteps == 3
MaxRetryTicks == 3
MaxKeySteps == 3

\* ------------------------------------------------------- program constants
DaysOld == 7
EntrySizeUsd == 3500000
ReconDust == 10
ScanDust == 1
PositionDust == 10
NoTpAbove == 7500
BalancedMax == 6000
StrongEntryMin == 2400
TpOffset == 200
WeakTpBase == 10200
TableNoTpAbove == 7000
\* MarketQueue: the default grace period, and the hour after which an entry expires.
GracePeriodMinutes == 2
ExpiryMinutes == 60

\* ------------------------------------------------------------ input samples
Markets == {"m1"}
StrongToken(m) == <<m, "a">>
WeakToken(m) == <<m, "b">>
Tokens == {StrongToken(m) : m \in Markets} \cup {WeakToken(m) : m \in Markets}
StrongPriceSamples == {5500, 6500}
PartialFillSamples == {ReconDust, 700}
NoId == 0
NoToken == <<"none", "none">>
TokenSeq == <<StrongToken("m1"), WeakToken("m1")>>
OrderIds == 1..MaxOrders

VARIABLES pc, now, tracked_orders, pending_markets, cached_prices,
          already_profitable_markets, open, vorders, balance, ended, nextId,
          lastRecon, lastExit, call, ticks, events, failures

vars == <<pc, now, tracked_orders, pending_markets, cached_prices,
          already_profitable_markets, open, vorders, balance, ended, nextId,
          lastRecon, lastExit, call, ticks, events, failures>>

\* ------------------------------------------------------------------ helpers
Max(a, b) == IF a >= b THEN a ELSE b

\* The elements of a finite set of integers in ascending order.
RECURSIVE SortedSeq(_)
SortedSeq(S) ==
  IF S = {} THEN <<>>
  ELSE LET m == CHOOSE x \in S : \A y \in S : x <= y
       IN <<m>> \o SortedSeq(S \ {m})

\* The slugs of a set of markets in feed order.
RECURSIVE SlugSeq(_)
SlugSeq(S) ==
  IF S = {} THEN <<>>
  ELSE LET m == CHOOSE x \in S : \A y \in S : (x = "m1") \/ (y # "m1")
       IN <<m>> \o SlugSeq(S \ {m})

\* ------------------------------------------------------------- OrderMonitor
\* OrderMonitor.add_order: insert (or overwrite) the entry, status active.
add_order(ledger, order_id, token_id, market_slug, side, price, size, entry_number, stp, t) ==
  [i \in DOMAIN ledger \cup {order_id} |->
     IF i = order_id
     THEN [order_id |-> order_id, token_id |-> token_id, market_slug |-> market_slug,
           side |-> side, price |-> price, size |-> size,
           entry_number |-> entry_number, strong_team_price_cents |-> stp,
           created_at |-> t, disappeared_count |-> 0,
           status |-> "active", recreated_as |-> NoId]
     ELSE ledger[i]]

\* A variant of update_order_status that waits for a second miss before it flags.
update_order_status_Debounced(ledger, order_id, still_exists, t) ==
  IF order_id \notin DOMAIN ledger THEN ledger
  ELSE IF still_exists
       THEN [ledger EXCEPT ![order_id].disappeared_count = 0]
       ELSE [ledger EXCEPT ![order_id].disappeared_count = @ + 1,
                           ![order_id].status = IF ledger[order_id].disappeared_count >= 1
                                                THEN "disappeared" ELSE @]

\* OrderMonitor.update_order_status with current_status left at its default None.
update_order_status(ledger, order_id, still_exists, t) ==
  IF order_id \notin DOMAIN ledger THEN ledger
  ELSE IF still_exists
       THEN [ledger EXCEPT ![order_id].disappeared_count = 0]
       ELSE [ledger EXCEPT ![order_id].disappeared_count = @ + 1,
                           ![order_id].status = "disappeared"]

\* A variant of get_disappeared_orders that lists the first such order only.
get_disappeared_orders_First(ledger) ==
  LET ids == {i \in DOMAIN ledger : ledger[i].status = "disappeared"}
  IN IF ids = {} THEN <<>> ELSE <<CHOOSE i \in ids : \A j \in ids : i <= j>>

\* OrderMonitor.get_disappeared_orders: the ids, in dictionary (insertion) order.
get_disappeared_orders(ledger) ==
  SortedSeq({i \in DOMAIN ledger : ledger[i].status = "disappeared"})

\* A variant of mark_order_filled that leaves the status as it is.
mark_order_filled_Noop(ledger, order_id) == ledger

mark_order_filled(ledger, order_id) ==
  IF order_id \in DOMAIN ledger
  THEN [ledger EXCEPT ![order_id].status = "filled"]
  ELSE ledger

\* A variant of mark_order_recreated that does not link the replacement.
mark_order_recreated_NoLink(ledger, old_order_id, new_order_id) ==
  IF old_order_id \in DOMAIN ledger
  THEN [ledger EXCEPT ![old_order_id].status = "recreated"]
  ELSE ledger

\* A variant of mark_order_recreated that counts its calls in the entry.
mark_order_recreated_Count(ledger, old_order_id, new_order_id) ==
  IF old_order_id \in DOMAIN ledger
  THEN [ledger EXCEPT ![old_order_id].status = "recreated",
                      ![old_order_id].recreated_as = new_order_id,
                      ![old_order_id].disappeared_count = @ + 1]
  ELSE ledger

mark_order_recreated(ledger, old_order_id, new_order_id) ==
  IF old_order_id \in DOMAIN ledger
  THEN [ledger EXCEPT ![old_order_id].status = "recreated",
                      ![old_order_id].recreated_as = new_order_id]
  ELSE ledger

\* A variant of remove_order that keeps the entry.
remove_order_Keep(ledger, order_id) == ledger

remove_order(ledger, order_id) ==
  [i \in DOMAIN ledger \ {order_id} |-> ledger[i]]

\* OrderMonitor.get_active_orders_by_market: the ids, in dictionary order.
get_active_orders_by_market(ledger, market_slug) ==
  SortedSeq({i \in DOMAIN ledger : /\ ledger[i].market_slug = market_slug
                                  /\ ledger[i].status \in {"active", "disappeared"}})

\* A variant of cleanup_old_orders that removes old orders whatever their status.
cleanup_old_orders_AnyStatus(ledger, days_old, t) ==
  [i \in {j \in DOMAIN ledger : ledger[j].created_at >= t - days_old} |-> ledger[i]]

\* OrderMonitor.cleanup_old_orders.
cleanup_old_orders(ledger, days_old, t) ==
  LET cutoff == t - days_old
      gone == {i \in DOMAIN ledger : /\ ledger[i].created_at < cutoff
                                     /\ ledger[i].status \notin {"active", "disappeared"}}
  IN [i \in DOMAIN ledger \ gone |-> ledger[i]]

\* -------------------------------------------------------------- MarketQueue
has_market(queue, slug) == slug \in DOMAIN queue

\* A variant of add_pending_market that replaces the entry of a slug already queued.
add_pending_market_Overwrite(queue, slug, entry_time, match_start_time, t) ==
  [s \in DOMAIN queue \cup {slug} |->
     IF s = slug
     THEN [slug |-> slug, entry_time |-> entry_time,
           match_start_time |-> match_start_time,
           discovered_at |-> t, status |-> "pending"]
     ELSE queue[s]]

add_pending_market(queue, slug, entry_time, match_start_time, t) ==
  IF slug \in DOMAIN queue THEN queue
  ELSE [s \in DOMAIN queue \cup {slug} |->
          IF s = slug
          THEN [slug |-> slug, entry_time |-> entry_time,
                match_start_time |-> match_start_time,
                discovered_at |-> t, status |-> "pending"]
          ELSE queue[s]]

\* A variant of mark_market_entered that puts an entered slug back to pending.
mark_market_entered_Toggle(queue, slug) ==
  IF slug \in DOMAIN queue
  THEN [queue EXCEPT ![slug].status = IF @ = "entered" THEN "pending" ELSE "entered"]
  ELSE queue

mark_market_entered(queue, slug) ==
  IF slug \in DOMAIN queue
  THEN [queue EXCEPT ![slug].status = "entered"]
  ELSE queue

\* A variant of remove_market that leaves the slug in the queue.
remove_market_Keep(queue, slug) == queue

remove_market(queue, slug) ==
  [s \in DOMAIN queue \ {slug} |-> queue[s]]

\* The try block of the queue's loops gets a timestamp it can compare with now:
\* datetime.fromisoformat parses it (to an aware datetime).  Such timestamps are
\* represented by their instant, a natural number; every stored value on which
\* the block raises by a negative number.
Parsable(timestamp) == timestamp \in Nat

\* A variant of get_markets_ready_for_entry without the grace-window test.
get_markets_ready_for_entry_NoGrace(queue, t) ==
  {slug \in DOMAIN queue :
     /\ queue[slug].status = "pending"
     /\ Parsable(queue[slug].entry_time) /\ Parsable(queue[slug].match_start_time)
     /\ t >= queue[slug].entry_time /\ t < queue[slug].match_start_time}

\* MarketQueue.get_markets_ready_for_entry at time t: the slugs the loop appends
\* to ready_slugs.  An entry whose timestamps do not parse raises inside the try
\* block and is skipped.
get_markets_ready_for_entry(queue, t) ==
  {slug \in DOMAIN queue :
     /\ queue[slug].status = "pending"
     /\ Parsable(queue[slug].entry_time) /\ Parsable(queue[slug].match_start_time)
     /\ LET entry_time == queue[slug].entry_time
            match_start_time == queue[slug].match_start_time
            grace_end == entry_time + GracePeriodMinutes
        IN t >= entry_time /\ t <= grace_end /\ t < match_start_time}

\* The list get_markets_ready_for_entry returns: one element per iteration of the
\* loop over the dict that passes the tests.
RECURSIVE ReadySlugs(_)
ReadySlugs(slugs) ==
  IF slugs = {} THEN <<>>
  ELSE LET slug == CHOOSE x \in slugs : TRUE
       IN <<slug>> \o ReadySlugs(slugs \ {slug})

\* A variant of cleanup_expired_markets that keeps the entries whose match start
\* does not parse.
cleanup_expired_markets_KeepBad(queue, t) ==
  LET expired_slugs ==
        {slug \in DOMAIN queue :
           /\ Parsable(queue[slug].match_start_time)
           /\ t > queue[slug].match_start_time + ExpiryMinutes}
  IN [s \in DOMAIN queue \ expired_slugs |-> queue[s]]

\* MarketQueue.cleanup_expired_markets at time t: drops the entries more than an
\* hour past their match start, and those whose match start does not parse.
cleanup_expired_markets(queue, t) ==
  LET expired_slugs ==
        {slug \in DOMAIN queue :
           IF Parsable(queue[slug].match_start_time)
           THEN t > queue[slug].match_start_time + ExpiryMinutes
           ELSE TRUE}
  IN [s \in DOMAIN queue \ expired_slugs |-> queue[s]]

\* --------------------------------------------------------------- PriceCache
\* The keys of the cache are strings, f"{market_slug}:{token_id}", here the
\* sequence of their characters.  SlugChars gives the characters of a slug: those
\* of the sampled slugs that have more than one, and a single character for
\* every other slug.  A token id is the sequence of its characters.
SlugChars(market_slug) ==
  CASE market_slug = "a:b" -> <<"a", ":", "b">>
    [] market_slug = "ab" -> <<"a", "b">>
    [] OTHER -> <<market_slug>>

CacheKey(market_slug, token_id) == SlugChars(market_slug) \o <<":">> \o token_id

\* str.startswith.
StartsWith(key, prefix) ==
  /\ Len(key) >= Len(prefix)
  /\ \A i \in 1..Len(prefix) : key[i] = prefix[i]

\* The prefix f"{market_slug}:" that has_cached_price and clear_market look for.
KeyPrefix(market_slug) == SlugChars(market_slug) \o <<":">>

has_cached_price(cache, market_slug) ==
  \E k \in DOMAIN cache : StartsWith(k, KeyPrefix(market_slug))

get_cached_price(cache, market_slug, token_id) ==
  IF CacheKey(market_slug, token_id) \in DOMAIN cache
  THEN cache[CacheKey(market_slug, token_id)].price
  ELSE NoId

\* A variant of cache_price that stores the latest price.
cache_price_Overwrite(cache, market_slug, token_id, price, team_name, t) ==
  [k \in DOMAIN cache \cup {CacheKey(market_slug, token_id)} |->
     IF k = CacheKey(market_slug, token_id)
     THEN [price |-> price, team_name |-> team_name, cached_at |-> t]
     ELSE cache[k]]

cache_price(cache, market_slug, token_id, price, team_name, t) ==
  IF CacheKey(market_slug, token_id) \in DOMAIN cache THEN cache
  ELSE [k \in DOMAIN cache \cup {CacheKey(market_slug, token_id)} |->
          IF k = CacheKey(market_slug, token_id)
          THEN [price |-> price, team_name |-> team_name, cached_at |-> t]
          ELSE cache[k]]

clear_market(cache, market_slug) ==
  [k \in {x \in DOMAIN cache : ~StartsWith(x, KeyPrefix(market_slug))} |-> cache[k]]

\* ------------------------------------------------------------ EntryStrategy
\* EntryStrategy.get_entry_prices: <<entry1, entry2>> in cc, or <<>> for None.
get_entry_prices(p) ==
  IF 0 <= p /\ p <= 6000 THEN <<2500, 2200>>
  ELSE IF 6100 <= p /\ p <= 6399 THEN <<4100, 2600>>
  ELSE IF 6400 <= p /\ p <= 6699 THEN <<4300, 3000>>
  ELSE IF 6700 <= p /\ p <= 6999 THEN <<4400, 3200>>
  ELSE IF 7000 <= p /\ p <= 7499 THEN <<5100, 3700>>
  ELSE IF 7500 <= p /\ p <= 7999 THEN <<5700, 4100>>
  ELSE IF 8000 <= p /\ p <= 10000 THEN <<6700, 5400>>
  ELSE <<>>

\* EntryStrategy.calculate_orders: the order specifications, or <<>> for None.
calculate_orders(market) ==
  LET cfg == get_entry_prices(market.strong_price)
      spec(tok, pr, n) == [token_id |-> tok, price |-> pr, amount_usd |-> EntrySizeUsd,
                           entry_number |-> n, market_slug |-> market.slug]
  IN IF cfg = <<>> THEN <<>>
     ELSE IF market.strong_price <= BalancedMax
          THEN << spec(market.strong_token, cfg[1], 1), spec(market.weak_token, cfg[2], 2) >>
          ELSE << spec(market.strong_token, cfg[1], 1), spec(market.strong_token, cfg[2], 2) >>

\* -------------------------------------------------------------------- venue
\* PolymarketClient.place_limit_buy / place_limit_sell against the venue: when the
\* venue accepts, the order rests on the book under the next id.  st.resp is the
\* orderID of the response, NoId when the response carries none.  slug and entry
\* annotate the resting order with the entry it was placed for.
VenuePlace(st, token_id, side, price, size, slug, entry, ok) ==
  IF ok /\ st.nextId <= MaxOrders
  THEN [st EXCEPT !.vorders = [i \in DOMAIN @ \cup {st.nextId} |->
                                 IF i = st.nextId
                                 THEN [id |-> i, asset_id |-> token_id, side |-> side,
                                       price |-> price, original_size |-> size,
                                       matched |-> 0,
                                       slug |-> slug, entry |-> entry]
                                 ELSE @[i]],
                  !.open = @ \cup {st.nextId},
                  !.nextId = @ + 1,
                  !.resp = st.nextId]
  ELSE [st EXCEPT !.resp = NoId]

place_limit_buy(st, token_id, price, amount_usdc, slug, entry, ok) ==
  VenuePlace(st, token_id, "BUY", price, amount_usdc \div price, slug, entry, ok)

place_limit_sell(st, token_id, price, size, slug, entry, ok) ==
  VenuePlace(st, token_id, "SELL", price, size, slug, entry, ok)

\* PolymarketClient.get_open_orders: the ids on the book, none when the query fails.
get_open_orders(book, ok) == IF ok THEN book ELSE {}

\* PolymarketClient.get_token_balance: 0 when the query fails.
get_token_balance(bal, token_id, ok) == IF ok THEN bal[token_id] ELSE 0

\* MarketScanner.is_market_active: False when the market ended or the lookup fails.
is_market_active(endedSet, slug, ok) == ok /\ slug \notin endedSet

\* ------------------------------------------------------------ MarketScanner
GameStart(m) == IF m = "m1" THEN 1 ELSE 2

\* MarketScanner.scan_lol_markets for one feed record that passed the filters:
\* price_a and price_b are the live prices, in_window says that the match starts
\* within the caching window.  Returns the cache and the filtered market.
ScanMarket(cache, slug, price_a, price_b, in_window, t) ==
  LET tok_a == StrongToken(slug)
      tok_b == WeakToken(slug)
      locked == has_cached_price(cache, slug)
      pa == IF locked THEN get_cached_price(cache, slug, tok_a) ELSE price_a
      pb == IF locked THEN get_cached_price(cache, slug, tok_b) ELSE price_b
      cache1 == IF ~locked /\ in_window
                THEN cache_price(cache_price(cache, slug, tok_a, price_a, "teamA", t),
                                 slug, tok_b, price_b, "teamB", t)
                ELSE cache
      a_strong == pa > pb
  IN [cache |-> cache1,
      market |-> [slug |-> slug,
                  entry_time |-> GameStart(slug),
                  match_start_time |-> GameStart(slug),
                  strong_token |-> IF a_strong THEN tok_a ELSE tok_b,
                  weak_token |-> IF a_strong THEN tok_b ELSE tok_a,
                  strong_price |-> IF a_strong THEN pa ELSE pb]]

RECURSIVE ScanLoop(_, _, _, _, _, _)
ScanLoop(slugs, cache, markets, live, windowed, t) ==
  IF slugs = <<>> THEN [cache |-> cache, markets |-> markets]
  ELSE LET m == Head(slugs)
           r == ScanMarket(cache, m, live[m], 10000 - live[m], m \in windowed, t)
       IN ScanLoop(Tail(slugs), r.cache, Append(markets, r.market), live, windowed, t)

\* ------------------------------------------------------------ TradeExecutor
\* TradeExecutor.place_entry_orders: st carries ledger, venue and the list of ids
\* placed so far; accepted is the set of <<slug, entry_number>> the venue accepts.
RECURSIVE place_entry_orders(_, _, _, _, _)
place_entry_orders(orders, st, stp, accepted, t) ==
  IF orders = <<>> THEN st
  ELSE LET o == Head(orders)
           s1 == place_limit_buy(st, o.token_id, o.price, o.amount_usd,
                                 o.market_slug, o.entry_number,
                                 <<o.market_slug, o.entry_number>> \in accepted)
           s2 == IF s1.resp # NoId
                 THEN [s1 EXCEPT !.placed = Append(@, s1.resp),
                                 !.ledger = add_order(@, s1.resp, o.token_id, o.market_slug,
                                                      "BUY", o.price, o.amount_usd \div o.price,
                                                      o.entry_number, stp, t)]
                 ELSE s1
       IN place_entry_orders(Tail(orders), s2, stp, accepted, t)

\* The observe loop of check_and_recreate_orders over the ledger's keys.
RECURSIVE ObserveLoop(_, _, _, _)
ObserveLoop(ids, ledger, open_order_ids, t) ==
  IF ids = <<>> THEN ledger
  ELSE ObserveLoop(Tail(ids),
                   update_order_status(ledger, Head(ids), Head(ids) \in open_order_ids, t),
                   open_order_ids, t)

\* A variant of ResubmitOrder whose placement never succeeds.
ResubmitOrder_Never(st, order_data, ok) == [st EXCEPT !.resp = NoId]

\* The placement call of the recreate branch: the order is re-submitted with
\* its recorded side, price and size.
ResubmitOrder(st, order_data, ok) ==
  IF order_data.side = "BUY"
  THEN place_limit_buy(st, order_data.token_id, order_data.price,
                       order_data.price * order_data.size, order_data.market_slug,
                       order_data.entry_number, ok)
  ELSE place_limit_sell(st, order_data.token_id, order_data.price, order_data.size,
                        order_data.market_slug, order_data.entry_number, ok)

\* One iteration of the loop over the disappeared orders: order_data is the entry
\* as listed by get_disappeared_orders.
RecreateOne(st, order_data, ended_markets, balOk, accepted, t) ==
  LET market_slug == order_data.market_slug
      token_id == order_data.token_id
      existing_balance == get_token_balance(st.balance, token_id, token_id \in balOk)
      side == order_data.side
      price == order_data.price
      size == order_data.size
      ok == order_data.order_id \in accepted
      s1 == ResubmitOrder(st, order_data, ok)
      s2 == [s1 EXCEPT !.calls = @ \cup {[seq |-> Cardinality(st.calls) + 1,
                                          for |-> order_data.order_id, token_id |-> token_id,
                                          side |-> side, price |-> price,
                                          size |-> IF side = "BUY" THEN (price * size) \div price
                                                   ELSE size,
                                          resp |-> s1.resp]}]
      s3 == IF s2.resp # NoId
            THEN [s2 EXCEPT !.ledger = mark_order_recreated(
                                         add_order(@, s2.resp, token_id, market_slug, side,
                                                   price, size, order_data.entry_number, NoId, t),
                                         order_data.order_id, s2.resp),
                            !.recreated_count = @ + 1]
            ELSE s2
  IN IF market_slug \in ended_markets
     THEN [st EXCEPT !.ledger = remove_order(@, order_data.order_id),
                     !.queue = remove_market(@, market_slug)]
     ELSE IF existing_balance > ReconDust
          THEN [st EXCEPT !.ledger = mark_order_filled(@, order_data.order_id)]
          ELSE s3

\* A variant of RecreateLoop that gives up the pass at the first placement that
\* fails.
RECURSIVE RecreateLoop_Abort(_, _, _, _, _, _)
RecreateLoop_Abort(disappeared, st, ended_markets, balOk, accepted, t) ==
  IF disappeared = <<>> THEN st
  ELSE LET s == RecreateOne(st, Head(disappeared), ended_markets, balOk, accepted, t)
       IN IF \E c \in s.calls \ st.calls : c.resp = NoId
          THEN s
          ELSE RecreateLoop_Abort(Tail(disappeared), s, ended_markets, balOk, accepted, t)

\* A variant of RecreateLoop that handles every disappeared order twice.
RECURSIVE RecreateLoop_Twice(_, _, _, _, _, _)
RecreateLoop_Twice(disappeared, st, ended_markets, balOk, accepted, t) ==
  IF disappeared = <<>> THEN st
  ELSE LET s == RecreateOne(st, Head(disappeared), ended_markets, balOk, accepted, t)
       IN RecreateLoop_Twice(Tail(disappeared),
                             RecreateOne(s, Head(disappeared), ended_markets, balOk,
                                         accepted, t),
                             ended_markets, balOk, accepted, t)

RECURSIVE RecreateLoop(_, _, _, _, _, _)
RecreateLoop(disappeared, st, ended_markets, balOk, accepted, t) ==
  IF disappeared = <<>> THEN st
  ELSE RecreateLoop(Tail(disappeared),
                    RecreateOne(st, Head(disappeared), ended_markets, balOk, accepted, t),
                    ended_markets, balOk, accepted, t)

\* The loop over the disappeared orders when the process dies in the iteration
\* of order killed_at, after its placement call has returned and before the
\* ledger calls that follow it: st.resp is the id the venue gave, NoId when the
\* iteration never reached a successful placement.
RECURSIVE RecreateLoopKilled(_, _, _, _, _, _, _)
RecreateLoopKilled(disappeared, st, ended_markets, balOk, accepted, t, killed_at) ==
  IF disappeared = <<>> THEN [st EXCEPT !.resp = NoId]
  ELSE LET order_data == Head(disappeared)
           existing_balance == get_token_balance(st.balance, order_data.token_id,
                                                 order_data.token_id \in balOk)
       IN IF order_data.order_id # killed_at
          THEN RecreateLoopKilled(Tail(disappeared),
                                  RecreateOne(st, order_data, ended_markets, balOk, accepted, t),
                                  ended_markets, balOk, accepted, t, killed_at)
          ELSE IF order_data.market_slug \in ended_markets \/ existing_balance > ReconDust
               THEN [st EXCEPT !.resp = NoId]
               ELSE ResubmitOrder(st, order_data, order_data.order_id \in accepted)

RECURSIVE OrderData(_, _)
OrderData(ids, ledger) ==
  IF ids = <<>> THEN <<>> ELSE <<ledger[Head(ids)]>> \o OrderData(Tail(ids), ledger)

\* TradeExecutor.check_and_recreate_orders.  snapOk: the open-order query succeeds;
\* lookupOk: the markets whose status lookup succeeds; balOk: the tokens whose
\* balance query succeeds; accepted: the old orders whose re-submission the venue
\* accepts.
check_and_recreate_orders(st, snapOk, lookupOk, balOk, accepted, t) ==
  LET open_order_ids == get_open_orders(st.open, snapOk)
      ledger1 == ObserveLoop(SortedSeq(DOMAIN st.ledger), st.ledger, open_order_ids, t)
      disappeared == OrderData(get_disappeared_orders(ledger1), ledger1)
      unique_markets == {disappeared[k].market_slug : k \in 1..Len(disappeared)}
      ended_markets == {m \in unique_markets : ~is_market_active(st.ended, m, m \in lookupOk)}
      s1 == [st EXCEPT !.ledger = ledger1,
                       !.seen = open_order_ids,
                       !.flagged = {disappeared[k].order_id : k \in 1..Len(disappeared)},
                       !.ended_markets = ended_markets]
  IN RecreateLoop(disappeared, s1, ended_markets, balOk, accepted, t)

\* check_and_recreate_orders cut short by the death of the process in the
\* iteration of order killed_at.
check_and_recreate_orders_killed(st, snapOk, lookupOk, balOk, accepted, t, killed_at) ==
  LET open_order_ids == get_open_orders(st.open, snapOk)
      ledger1 == ObserveLoop(SortedSeq(DOMAIN st.ledger), st.ledger, open_order_ids, t)
      disappeared == OrderData(get_disappeared_orders(ledger1), ledger1)
      unique_markets == {disappeared[k].market_slug : k \in 1..Len(disappeared)}
      ended_markets == {m \in unique_markets : ~is_market_active(st.ended, m, m \in lookupOk)}
  IN RecreateLoopKilled(disappeared, [st EXCEPT !.ledger = ledger1], ended_markets,
                        balOk, accepted, t, killed_at)

\* The map token -> total original_size of the open SELL orders of a snapshot.
RECURSIVE SellTotal(_, _, _)
SellTotal(ids, venueOrders, token_id) ==
  IF ids = {} THEN 0
  ELSE LET i == CHOOSE x \in ids : TRUE
           rest == SellTotal(ids \ {i}, venueOrders, token_id)
       IN IF venueOrders[i].side = "SELL" /\ venueOrders[i].asset_id = token_id
          THEN venueOrders[i].original_size + rest
          ELSE rest

existing_sell_orders(snapshot, venueOrders) ==
  [tok \in Tokens |-> SellTotal(snapshot, venueOrders, tok)]

\* A variant of TrackedStartPrice that makes up start price data when the ledger
\* yields none.
TrackedStartPrice_Synthetic(ledger, market_slug, token_id) ==
  [found |-> TRUE, price |-> StrongEntryMin, strong_team_price_cents |-> BalancedMax,
   filled_entry_numbers |-> {}]

\* The fallback of check_filled_positions_and_set_tp when the price cache has no
\* entry: the start price data derived from the tracked orders of the market, or
\* found = FALSE when none can be derived.
TrackedStartPrice(ledger, market_slug, token_id) ==
  LET tracked == get_active_orders_by_market(ledger, market_slug)
      ids == {tracked[k] : k \in 1..Len(tracked)}
      withStp == {i \in ids : ledger[i].strong_team_price_cents # NoId}
      mine == {i \in ids : ledger[i].token_id = token_id /\ ledger[i].side = "BUY"}
      last(S) == CHOOSE x \in S : \A y \in S : y <= x
      strong_team_price_cents == IF withStp = {} THEN NoId
                                 ELSE ledger[last(withStp)].strong_team_price_cents
      entry_price == IF mine = {} THEN NoId ELSE ledger[last(mine)].price
      filled_entry_numbers == {ledger[i].entry_number : i \in mine} \ {NoId}
  IN IF entry_price # NoId /\ strong_team_price_cents # NoId
     THEN [found |-> TRUE, price |-> entry_price,
           strong_team_price_cents |-> strong_team_price_cents,
           filled_entry_numbers |-> filled_entry_numbers]
     ELSE [found |-> FALSE, price |-> NoId, strong_team_price_cents |-> NoId,
           filled_entry_numbers |-> {}]

\* The take-profit price rule of check_filled_positions_and_set_tp (steps 4-5),
\* applied to start price data: the price in cc, or NoId for "no TP".
TpPrice(start_price_data) ==
  LET strong_price_cents == start_price_data.strong_team_price_cents
      entry_price_cents == start_price_data.price
  IN IF strong_price_cents = NoId THEN NoId
     ELSE IF strong_price_cents > NoTpAbove THEN NoId
     ELSE IF strong_price_cents <= BalancedMax
          THEN IF entry_price_cents >= StrongEntryMin
               THEN strong_price_cents - TpOffset
               ELSE WeakTpBase - strong_price_cents
          ELSE IF Cardinality(start_price_data.filled_entry_numbers) < 2 THEN NoId
               ELSE strong_price_cents - TpOffset

\* A variant of place_take_profit_orders that does not track the order it placed.
place_take_profit_orders_Untracked(st, token_id, market_slug, tp_price, position_size, ok, t) ==
  place_limit_sell(st, token_id, tp_price, position_size, market_slug, NoId, ok)

\* TradeExecutor.place_take_profit_orders.
place_take_profit_orders(st, token_id, market_slug, tp_price, position_size, ok, t) ==
  LET s1 == place_limit_sell(st, token_id, tp_price, position_size, market_slug, NoId, ok)
  IN IF s1.resp # NoId
     THEN [s1 EXCEPT !.ledger = add_order(@, s1.resp, token_id, market_slug, "SELL",
                                          tp_price, position_size, NoId, NoId, t)]
     ELSE s1

\* dict.get(key, default) on a record.
Get(rec, key, default) == IF key \in DOMAIN rec THEN rec[key] ELSE default

\* A variant of unsold_position that ignores the SELL orders accounted so far.
unsold_position_Whole(position_size, existing_sell_size) == position_size

\* A variant of unsold_position that adds the SELL orders accounted so far.
unsold_position_Sum(position_size, existing_sell_size) == position_size + existing_sell_size

\* The part of a position not yet covered by SELL orders.
unsold_position(position_size, existing_sell_size) == position_size - existing_sell_size

\* One iteration of the loop over the positions; k is the index of the record.
ExitOne(st, position, k, profitable, price_cache, accepted, t) ==
  LET token_id == Get(position, "asset", NoToken)
      position_size == Get(position, "size", 0)
      market_slug == Get(position, "slug", "unknown")
      existing_sell_size == st.sells[token_id]
      unsold == unsold_position(position_size, existing_sell_size)
      start_price_data ==
        IF CacheKey(market_slug, token_id) \in DOMAIN price_cache
        THEN [found |-> TRUE,
              price |-> price_cache[CacheKey(market_slug, token_id)].price,
              strong_team_price_cents |-> NoId,
              filled_entry_numbers |-> {}]
        ELSE TrackedStartPrice(st.ledger, market_slug, token_id)
      tp_price == TpPrice(start_price_data)
      s1 == place_take_profit_orders(st, token_id, market_slug, tp_price,
                                     unsold, k \in accepted, t)
      s1c == [s1 EXCEPT !.xcalls = @ \cup {[k |-> k, token_id |-> token_id,
                                             price |-> tp_price, size |-> unsold,
                                             existing |-> existing_sell_size,
                                             resp |-> s1.resp]}]
      s2 == IF s1.resp # NoId
            THEN [s1c EXCEPT !.tp_placed = @ + 1,
                            !.sells[token_id] = @ + unsold,
                            !.issued[token_id] = @ + unsold]
            ELSE s1c
      seen == IF token_id \in Tokens
              THEN [st EXCEPT !.max_pos[token_id] = Max(@, position_size),
                              !.records[token_id] = @ + 1]
              ELSE st
  IN IF position_size < PositionDust THEN seen
     ELSE IF market_slug \in profitable THEN seen
     ELSE IF unsold <= PositionDust THEN seen
     ELSE IF ~start_price_data.found THEN seen
     ELSE IF tp_price = NoId THEN seen
     ELSE [s2 EXCEPT !.max_pos[token_id] = Max(@, position_size),
                     !.records[token_id] = @ + 1]

\* The records of the Data API for the holdings bal, in token order: one per token
\* held, keyed as the API keys them.
RECURSIVE DataApiPositions(_, _)
DataApiPositions(toks, bal) ==
  IF toks = <<>> THEN <<>>
  ELSE LET tok == Head(toks)
           rest == DataApiPositions(Tail(toks), bal)
       IN IF bal[tok] > 0
          THEN <<[asset |-> tok, size |-> bal[tok], slug |-> tok[1]]>> \o rest
          ELSE rest

\* PolymarketClient.get_all_positions on the API's records: drops dust and re-keys.
RECURSIVE get_all_positions(_)
get_all_positions(positions_data) ==
  IF positions_data = <<>> THEN <<>>
  ELSE LET position == Head(positions_data)
           rest == get_all_positions(Tail(positions_data))
       IN IF Get(position, "size", 0) > ScanDust
          THEN <<[token_id |-> Get(position, "asset_id", NoToken),
                  balance |-> Get(position, "size", 0),
                  market_slug |-> Get(position, "market", NoToken)]>> \o rest
          ELSE rest

RECURSIVE ExitLoop(_, _, _, _, _, _, _)
ExitLoop(positions, k, st, profitable, price_cache, accepted, t) ==
  IF k > Len(positions) THEN st
  ELSE ExitLoop(positions, k + 1,
                ExitOne(st, positions[k], k, profitable, price_cache, accepted, t),
                profitable, price_cache, accepted, t)

\* TradeExecutor.check_filled_positions_and_set_tp.  positions is the list the
\* position query returns; snapOk: the open-order query succeeds; accepted: the
\* indices of the positions whose SELL the venue accepts.
check_filled_positions_and_set_tp(st, positions, snapOk, profitable, price_cache, accepted, t) ==
  IF positions = <<>> THEN st
  ELSE LET snapshot == get_open_orders(st.open, snapOk)
           sells == existing_sell_orders(snapshot, st.vorders)
       IN ExitLoop(positions, 1, [st EXCEPT !.sells = sells, !.seen_sells = sells],
                   profitable, price_cache, accepted, t)

\* --------------------------------------------------------------- LOLTradingBot
\* Step 2 of LOLTradingBot.scan_and_execute: the loop over the scanned markets.
\* snapshot is the open-order list fetched once before the loop.
RECURSIVE EntryLoop(_, _, _, _, _, _)
EntryLoop(markets, st, snapshot, balOk, accepted, t) ==
  IF markets = <<>> THEN st
  ELSE LET market == Head(markets)
           slug == market.slug
           s0 == [st EXCEPT !.queue = add_pending_market(@, slug, market.entry_time,
                                                         market.match_start_time, t)]
           has_open_order == \E i \in snapshot :
                                /\ st.vorders[i].asset_id = market.strong_token
                                /\ st.vorders[i].side = "BUY"
           existing_balance == get_token_balance(st.balance, market.strong_token,
                                                 market.strong_token \in balOk)
           orders == calculate_orders(market)
           entered == [s0 EXCEPT !.queue = mark_market_entered(@, slug)]
           s1 == place_entry_orders(orders, [s0 EXCEPT !.placed = <<>>,
                                                       !.attempted = @ \cup {slug}],
                                    market.strong_price, accepted, t)
           s2 == IF s1.placed # <<>>
                 THEN [s1 EXCEPT !.queue = mark_market_entered(@, slug),
                                 !.new_orders_placed = @ + Len(s1.placed)]
                 ELSE s1
           next == IF has_open_order THEN entered
                   ELSE IF existing_balance > ScanDust THEN entered
                   ELSE IF orders = <<>> THEN entered
                   ELSE s2
       IN EntryLoop(Tail(markets), next, snapshot, balOk, accepted, t)

\* -------------------------------------------------------------------- state
EmptyMap == [x \in {} |-> NoId]
ZeroPerToken == [tok \in Tokens |-> 0]

NoRecon == [ran |-> FALSE, snap_ok |-> TRUE, seen |-> {}, flagged |-> {}, ended_markets |-> {},
            bal |-> ZeroPerToken, calls |-> {}, recreated_count |-> 0]
NoExit == [ran |-> FALSE, seen_sells |-> ZeroPerToken, issued |-> ZeroPerToken,
           max_pos |-> ZeroPerToken, records |-> ZeroPerToken, tp_placed |-> 0,
           positions |-> <<>>, rejected |-> {}, calls |-> {}]
NoCall == [op |-> "none", order_id |-> NoId, still_exists |-> FALSE,
           before |-> "none", n |-> 0]

\* The working state the operations thread through their loops.
Work ==
  [ledger |-> tracked_orders, queue |-> pending_markets, open |-> open,
   vorders |-> vorders, nextId |-> nextId, balance |-> balance, ended |-> ended,
   resp |-> NoId, placed |-> <<>>, new_orders_placed |-> 0,
   calls |-> {}, recreated_count |-> 0, seen |-> {}, flagged |-> {},
   ended_markets |-> {},
   sells |-> ZeroPerToken, seen_sells |-> ZeroPerToken, issued |-> ZeroPerToken,
   max_pos |-> ZeroPerToken, records |-> ZeroPerToken, tp_placed |-> 0,
   xcalls |-> {}, attempted |-> {}]

Init ==
  /\ pc = "idle"
  /\ now = 0
  /\ tracked_orders = EmptyMap
  /\ pending_markets = EmptyMap
  /\ cached_prices = EmptyMap
  /\ already_profitable_markets = {}
  /\ open = {}
  /\ vorders = EmptyMap
  /\ balance = ZeroPerToken
  /\ ended = {}
  /\ nextId = 1
  /\ lastRecon = NoRecon
  /\ lastExit = NoExit
  /\ call = NoCall
  /\ ticks = 0
  /\ events = 0
  /\ failures = 0

\* ------------------------------------------------------- the venue, between ticks
Remaining(i) == vorders[i].original_size - vorders[i].matched

\* The venue silently drops a resting order.
VenueDrop(i) ==
  /\ pc = "idle"
  /\ events < MaxVenueEvents
  /\ events' = events + 1
  /\ i \in open
  /\ open' = open \ {i}
  /\ UNCHANGED <<pc, now, tracked_orders, pending_markets, cached_prices,
                 already_profitable_markets, vorders, balance, ended, nextId,
                 lastRecon, lastExit, call, ticks, failures>>

\* A resting order executes in full and leaves the book.
VenueFill(i) ==
  /\ pc = "idle"
  /\ events < MaxVenueEvents
  /\ events' = events + 1
  /\ i \in open
  /\ vorders[i].side = "SELL" => balance[vorders[i].asset_id] >= Remaining(i)
  /\ open' = open \ {i}
  /\ balance' = [balance EXCEPT ![vorders[i].asset_id] =
                   IF vorders[i].side = "BUY" THEN @ + Remaining(i) ELSE @ - Remaining(i)]
  /\ vorders' = [vorders EXCEPT ![i].matched = vorders[i].original_size]
  /\ UNCHANGED <<pc, now, tracked_orders, pending_markets, cached_prices,
                 already_profitable_markets, ended, nextId, lastRecon, lastExit, call, ticks, failures>>

\* A resting order executes in part and stays on the book.
VenuePartialFill(i, q) ==
  /\ pc = "idle"
  /\ events < MaxVenueEvents
  /\ events' = events + 1
  /\ i \in open
  /\ vorders[i].matched = 0
  /\ q < Remaining(i)
  /\ vorders[i].side = "SELL" => balance[vorders[i].asset_id] >= q
  /\ balance' = [balance EXCEPT ![vorders[i].asset_id] =
                   IF vorders[i].side = "BUY" THEN @ + q ELSE @ - q]
  /\ vorders' = [vorders EXCEPT ![i].matched = q]
  /\ UNCHANGED <<pc, now, tracked_orders, pending_markets, cached_prices,
                 already_profitable_markets, open, ended, nextId, lastRecon, lastExit, call, ticks, failures>>

\* A market reaches its end date.
MarketEnds(m) ==
  /\ pc = "idle"
  /\ events < MaxVenueEvents
  /\ events' = events + 1
  /\ m \notin ended
  /\ ended' = ended \cup {m}
  /\ UNCHANGED <<pc, now, tracked_orders, pending_markets, cached_prices,
                 already_profitable_markets, open, vorders, balance, nextId,
                 lastRecon, lastExit, call, ticks, failures>>

\* The bot sleeps between two ticks for longer than the cleanup age.
TimePasses ==
  /\ pc = "idle"
  /\ events < MaxVenueEvents
  /\ events' = events + 1
  /\ now + DaysOld + 1 <= MaxNow
  /\ now' = now + DaysOld + 1
  /\ UNCHANGED <<pc, tracked_orders, pending_markets, cached_prices,
                 already_profitable_markets, open, vorders, balance, ended, nextId,
                 lastRecon, lastExit, call, ticks, failures>>

\* LOLTradingBot.add_profitable_market.
AddProfitableMarket(m) ==
  /\ pc = "idle"
  /\ events < MaxVenueEvents
  /\ events' = events + 1
  /\ m \notin already_profitable_markets
  /\ already_profitable_markets' = already_profitable_markets \cup {m}
  /\ UNCHANGED <<pc, now, tracked_orders, pending_markets, cached_prices,
                 open, vorders, balance, ended, nextId, lastRecon, lastExit, call,
                 ticks, failures>>

\* ------------------------------------------------------------------ the tick
\* The number of failing external calls among the inputs of a step.
Failed(snapOk, n) == (IF snapOk THEN 0 ELSE 1) + n

\* The failures of the placements of step 2: the venue rejecting the entry
\* orders of one tick counts as one failure, however many orders it rejects.
Rejecting(rejected) == IF rejected = {} THEN 0 ELSE 1

\* Steps 1-2 of scan_and_execute; call records the slugs for which the tick called
\* place_entry_orders.  feed: the markets the scan lists; live: their
\* live strong-side prices; windowed: those inside the caching window; balFail:
\* the tokens whose balance query fails; rejected: the <<slug, entry_number>> the
\* venue rejects.
ScanAndPlace(feed, live, windowed, snapOk, balFail, rejected) ==
  /\ pc = "idle"
  /\ ticks < MaxTicks
  /\ failures + Failed(snapOk, Cardinality(balFail) + Rejecting(rejected)) <= MaxFailures
  /\ LET t == now
         scan == ScanLoop(SlugSeq(feed), cached_prices, <<>>, live, windowed, t)
         all_open_orders == get_open_orders(open, snapOk)
         r == EntryLoop(scan.markets, Work, all_open_orders, Tokens \ balFail,
                        (Markets \X {1, 2}) \ rejected, t)
     IN /\ cached_prices' = scan.cache
        /\ tracked_orders' = r.ledger
        /\ pending_markets' = r.queue
        /\ open' = r.open
        /\ vorders' = r.vorders
        /\ nextId' = r.nextId
        /\ call' = [op |-> "place_entry_orders", order_id |-> NoId,
                    still_exists |-> FALSE, before |-> "none", n |-> 0,
                    attempted |-> r.attempted]
  /\ ticks' = ticks + 1
  /\ failures' = failures + Failed(snapOk, Cardinality(balFail) + Rejecting(rejected))
  /\ pc' = "recon"
  /\ UNCHANGED <<now, already_profitable_markets, balance, ended, lastRecon, lastExit,
                 events>>

\* Step 4 of scan_and_execute.  lookupFail: the markets whose status lookup fails;
\* balFail: the tokens whose balance query fails; rejected: the old orders whose
\* re-submission the venue rejects.
CheckAndRecreate(snapOk, lookupFail, balFail, rejected) ==
  /\ pc = "recon"
  /\ failures + Failed(snapOk, Cardinality(lookupFail) + Cardinality(balFail) + Cardinality(rejected)) <= MaxFailures
  /\ LET r == check_and_recreate_orders(Work, snapOk, Markets \ lookupFail,
                                        Tokens \ balFail, OrderIds \ rejected, now)
     IN /\ tracked_orders' = r.ledger
        /\ pending_markets' = r.queue
        /\ open' = r.open
        /\ vorders' = r.vorders
        /\ nextId' = r.nextId
        /\ lastRecon' = [ran |-> TRUE, snap_ok |-> snapOk, seen |-> r.seen, flagged |-> r.flagged,
                         ended_markets |-> r.ended_markets,
                         bal |-> [tok \in Tokens |->
                                    get_token_balance(balance, tok, tok \notin balFail)],
                         calls |-> r.calls, recreated_count |-> r.recreated_count]
  /\ failures' = failures + Failed(snapOk, Cardinality(lookupFail) + Cardinality(balFail) + Cardinality(rejected))
  /\ pc' = "exit"
  /\ UNCHANGED <<now, cached_prices, already_profitable_markets, balance, ended,
                 lastExit, call, ticks, events>>

\* Step 4 of scan_and_execute when the process is killed between a placement
\* call and the ledger calls that follow it, and is started again: the ledger and
\* the queue are read back from their files, the excluded markets start empty.
KilledInRecreate(killed_at) ==
  /\ pc = "recon"
  /\ failures + 1 <= MaxFailures
  /\ LET r == check_and_recreate_orders_killed(Work, TRUE, Markets, Tokens, OrderIds,
                                               now, killed_at)
     IN /\ r.resp # NoId
        /\ tracked_orders' = r.ledger
        /\ pending_markets' = r.queue
        /\ open' = r.open
        /\ vorders' = r.vorders
        /\ nextId' = r.nextId
  /\ failures' = failures + 1
  /\ already_profitable_markets' = {}
  /\ lastRecon' = NoRecon
  /\ pc' = "idle"
  /\ UNCHANGED <<now, cached_prices, balance, ended, lastExit, call, ticks, events>>

\* A variant of CheckFilledAndSetTp that may start before the reconciliation pass
\* of the tick has run.
CheckFilledAndSetTp_Early(positions, snapOk, rejected) ==
  /\ pc \in {"recon", "exit"}
  /\ failures + Failed(snapOk, Cardinality(rejected)) <= MaxFailures
  /\ LET r == check_filled_positions_and_set_tp(Work, positions, snapOk,
                                                already_profitable_markets,
                                                cached_prices,
                                                (1..Len(positions)) \ rejected, now)
     IN /\ tracked_orders' = r.ledger
        /\ open' = r.open
        /\ vorders' = r.vorders
        /\ nextId' = r.nextId
        /\ lastExit' = [ran |-> TRUE, seen_sells |-> r.seen_sells, issued |-> r.issued,
                        max_pos |-> r.max_pos, records |-> r.records,
                        tp_placed |-> r.tp_placed, positions |-> positions,
                        rejected |-> rejected, calls |-> r.xcalls]
  /\ failures' = failures + Failed(snapOk, Cardinality(rejected))
  /\ lastRecon' = NoRecon
  /\ pc' = "gc"
  /\ UNCHANGED <<now, pending_markets, cached_prices, already_profitable_markets,
                 balance, ended, call, ticks, events>>

\* Step 5 of scan_and_execute.  positions: the reply of the position query;
\* rejected: the indices of the positions whose SELL the venue rejects.
CheckFilledAndSetTp(positions, snapOk, rejected) ==
  /\ pc = "exit"
  /\ failures + Failed(snapOk, Cardinality(rejected)) <= MaxFailures
  /\ LET r == check_filled_positions_and_set_tp(Work, positions, snapOk,
                                                already_profitable_markets,
                                                cached_prices,
                                                (1..Len(positions)) \ rejected, now)
     IN /\ tracked_orders' = r.ledger
        /\ open' = r.open
        /\ vorders' = r.vorders
        /\ nextId' = r.nextId
        /\ lastExit' = [ran |-> TRUE, seen_sells |-> r.seen_sells, issued |-> r.issued,
                        max_pos |-> r.max_pos, records |-> r.records,
                        tp_placed |-> r.tp_placed, positions |-> positions,
                        rejected |-> rejected, calls |-> r.xcalls]
  /\ failures' = failures + Failed(snapOk, Cardinality(rejected))
  /\ lastRecon' = NoRecon
  /\ pc' = "gc"
  /\ UNCHANGED <<now, pending_markets, cached_prices, already_profitable_markets,
                 balance, ended, call, ticks, events>>

\* Step 6 of scan_and_execute.
CleanupOldOrders ==
  /\ pc = "gc"
  /\ tracked_orders' = cleanup_old_orders(tracked_orders, DaysOld, now)
  /\ lastExit' = NoExit
  /\ pc' = "idle"
  /\ UNCHANGED <<now, pending_markets, cached_prices, already_profitable_markets,
                 open, vorders, balance, ended, nextId, lastRecon, call,
                 ticks, events, failures>>

\* The replies the position query can give for the current holdings: the API's
\* records, optionally with a second record for a token held, either passed
\* through as they are or as PolymarketClient.get_all_positions re-keys them.
PositionReplies ==
  LET base == DataApiPositions(TokenSeq, balance)
      held == {tok \in Tokens : balance[tok] > 0}
      extras == {[asset |-> tok, size |-> balance[tok], slug |-> tok[1]] : tok \in held}
      raw == {base} \cup {<<x>> \o base : x \in extras} \cup {base \o <<x>> : x \in extras}
  IN raw \cup {get_all_positions(p) : p \in raw}

\* The tracked orders a reconciliation pass would list as disappeared.
Flagged(snapOk) ==
  {i \in DOMAIN tracked_orders :
     \/ i \notin get_open_orders(open, snapOk)
     \/ tracked_orders[i].status = "disappeared"}

Next ==
  \/ \E i \in OrderIds : VenueDrop(i)
  \/ \E i \in OrderIds : VenueFill(i)
  \/ \E i \in OrderIds, q \in PartialFillSamples : VenuePartialFill(i, q)
  \/ \E m \in Markets : MarketEnds(m)
  \/ TimePasses
  \/ \E m \in Markets : AddProfitableMarket(m)
  \/ \E feed \in SUBSET Markets, snapOk \in BOOLEAN :
       \E live \in [feed -> StrongPriceSamples], windowed \in SUBSET feed,
          balFail \in SUBSET {StrongToken(m) : m \in feed},
          rejected \in SUBSET (feed \X {1, 2}) :
            ScanAndPlace(feed, live, windowed, snapOk, balFail, rejected)
  \/ \E snapOk \in BOOLEAN :
       \E lookupFail \in SUBSET {tracked_orders[i].market_slug : i \in Flagged(snapOk)},
          balFail \in SUBSET {tracked_orders[i].token_id : i \in Flagged(snapOk)},
          rejected \in SUBSET Flagged(snapOk) :
            CheckAndRecreate(snapOk, lookupFail, balFail, rejected)
  \/ \E i \in OrderIds : KilledInRecreate(i)
  \/ \E positions \in PositionReplies, snapOk \in BOOLEAN :
       \E rejected \in SUBSET (1..Len(positions)) :
            CheckFilledAndSetTp(positions, snapOk, rejected)
  \/ CleanupOldOrders

Spec == Init /\ [][Next]_vars

\* ------------------------------------------------- the ledger driven directly
\* The operations of OrderMonitor applied one after the other to the ledger, as a
\* caller of the class can apply them; call records the last operation.
LedgerIds == 1..2
StatusOf(ledger, order_id) ==
  IF order_id \in DOMAIN ledger THEN ledger[order_id].status ELSE "none"

Called(op, order_id, still_exists) ==
  [op |-> op, order_id |-> order_id, still_exists |-> still_exists,
   before |-> StatusOf(tracked_orders, order_id), n |-> call.n + 1]

LedgerUnchanged ==
  UNCHANGED <<pc, now, pending_markets, cached_prices, already_profitable_markets,
              open, vorders, balance, ended, nextId, lastRecon, lastExit,
              ticks, events, failures>>

LAddOrder(order_id) ==
  /\ call.n < MaxLedgerSteps
  /\ tracked_orders' = add_order(tracked_orders, order_id, StrongToken("m1"), "m1", "BUY",
                                 2500, EntrySizeUsd \div 2500, 1, 5500, now)
  /\ call' = Called("add_order", order_id, FALSE)
  /\ LedgerUnchanged

LUpdateOrderStatus(order_id, still_exists) ==
  /\ call.n < MaxLedgerSteps
  /\ tracked_orders' = update_order_status(tracked_orders, order_id, still_exists, now)
  /\ call' = Called("update_order_status", order_id, still_exists)
  /\ LedgerUnchanged

LMarkOrderFilled(order_id) ==
  /\ call.n < MaxLedgerSteps
  /\ tracked_orders' = mark_order_filled(tracked_orders, order_id)
  /\ call' = Called("mark_order_filled", order_id, FALSE)
  /\ LedgerUnchanged

LMarkOrderRecreated(old_order_id, new_order_id) ==
  /\ call.n < MaxLedgerSteps
  /\ old_order_id # new_order_id
  /\ tracked_orders' = mark_order_recreated(tracked_orders, old_order_id, new_order_id)
  /\ call' = [op |-> "mark_order_recreated", order_id |-> old_order_id,
              still_exists |-> FALSE,
              before |-> StatusOf(tracked_orders, old_order_id), n |-> call.n + 1,
              new_order_id |-> new_order_id]
  /\ LedgerUnchanged

LRemoveOrder(order_id) ==
  /\ call.n < MaxLedgerSteps
  /\ tracked_orders' = remove_order(tracked_orders, order_id)
  /\ call' = Called("remove_order", order_id, FALSE)
  /\ LedgerUnchanged

NextLedger ==
  \/ \E i \in LedgerIds : LAddOrder(i)
  \/ \E i \in LedgerIds, b \in BOOLEAN : LUpdateOrderStatus(i, b)
  \/ \E i \in LedgerIds : LMarkOrderFilled(i)
  \/ \E i \in LedgerIds, j \in LedgerIds : LMarkOrderRecreated(i, j)
  \/ \E i \in LedgerIds : LRemoveOrder(i)

SpecLedger == Init /\ [][NextLedger]_vars

\* ------------------------------------------------------------------ properties
\* A step that is a reconciliation pass (step 4 of the tick).
ReconStep == pc = "recon" /\ pc' = "exit"

\* The placement calls a reconciliation pass made for the tracked order i.
CallsFor(recon, i) == {c \in recon.calls : c.for = i}

\* C1 -- never double-placing: for every market slug, token and entry number at
\* most one BUY entry order of the bot rests on the venue at any time.
C1_NeverDoublePlacing ==
  \A i \in open : \A j \in open :
    (/\ i # j
     /\ vorders[i].side = "BUY" /\ vorders[j].side = "BUY"
     /\ vorders[i].entry # NoId
     /\ vorders[i].slug = vorders[j].slug
     /\ vorders[i].asset_id = vorders[j].asset_id
     /\ vorders[i].entry = vorders[j].entry) => FALSE

\* C2 as stated -- no double-sell: after an exit pass, for every token the pass
\* observed a position of, the SELL sizes seen at the start of the pass plus the
\* SELL sizes issued during the pass do not exceed the largest position size
\* observed for the token in the pass.
C2_NoDoubleSell_AsStated ==
  lastExit.ran =>
    \A tok \in Tokens :
      lastExit.max_pos[tok] > 0 =>
        lastExit.seen_sells[tok] + lastExit.issued[tok] <= lastExit.max_pos[tok]

\* C2 -- no double-sell, for the tokens the pass sells: after an exit pass, for
\* every token the pass issued a SELL for, the SELL sizes seen at the start of the
\* pass plus the SELL sizes issued during the pass do not exceed the largest
\* position size observed for the token in the pass.
C2_NoDoubleSell ==
  lastExit.ran =>
    \A tok \in Tokens :
      lastExit.issued[tok] > 0 =>
        lastExit.seen_sells[tok] + lastExit.issued[tok] <= lastExit.max_pos[tok]

\* An exit pass that read two position records of one token and sold it once.
C2_Witness ==
  /\ lastExit.ran
  /\ \E tok \in Tokens : /\ lastExit.issued[tok] > 0
                         /\ lastExit.issued[tok] = lastExit.max_pos[tok]
                         /\ lastExit.records[tok] >= 2

\* C3 -- inactive market: in a reconciliation pass, an order listed as disappeared
\* whose market the status lookup reports inactive is removed from the ledger and
\* no placement call is made for it.
C3_InactiveMarketRemoved ==
  [][ReconStep =>
       \A i \in lastRecon'.flagged :
         tracked_orders[i].market_slug \in lastRecon'.ended_markets =>
           /\ i \notin DOMAIN tracked_orders'
           /\ CallsFor(lastRecon', i) = {}]_vars

\* A pass has just removed a disappeared order of a market reported inactive.
C3_Witness ==
  /\ pc = "exit"
  /\ lastRecon.ran
  /\ lastRecon.ended_markets # {}
  /\ \E i \in lastRecon.flagged : i \notin DOMAIN tracked_orders /\ CallsFor(lastRecon, i) = {}

C5_TerminalStaysTerminal ==
  [][\A i \in DOMAIN tracked_orders :
       tracked_orders[i].status \in {"filled", "cancelled"} =>
         IF i \in DOMAIN tracked_orders'
         THEN tracked_orders'[i].status = tracked_orders[i].status
         ELSE pc = "gc"]_vars

\* C6 -- a tracked order in status recreated is not listed as disappeared by any
\* later reconciliation pass and gets no further placement call.
C6_RecreatedExcluded ==
  [][ReconStep =>
       \A i \in DOMAIN tracked_orders :
         tracked_orders[i].status = "recreated" =>
           /\ i \notin lastRecon'.flagged
           /\ CallsFor(lastRecon', i) = {}]_vars

\* C7 -- in every ledger state a tracked order has recreated_as set if and only if
\* its status is recreated.
C7_RecreatedAsIffRecreated ==
  \A i \in DOMAIN tracked_orders :
    (tracked_orders[i].recreated_as # NoId) <=> (tracked_orders[i].status = "recreated")

\* C8 -- re-observation: a tracked order in status disappeared that a
\* reconciliation pass finds in the venue snapshot is active with
\* disappeared_count 0 afterwards, is not listed as disappeared and is not
\* recreated in that pass.
C8_ReobservedIsActive ==
  [][ReconStep =>
       \A i \in DOMAIN tracked_orders :
         (tracked_orders[i].status = "disappeared" /\ i \in lastRecon'.seen) =>
           /\ i \notin lastRecon'.flagged
           /\ CallsFor(lastRecon', i) = {}
           /\ i \in DOMAIN tracked_orders'
           /\ tracked_orders'[i].status = "active"
           /\ tracked_orders'[i].disappeared_count = 0]_vars

\* C9 -- no debounce: observing an active tracked order as absent increments its
\* disappeared_count by exactly one and sets its status to disappeared, leaving
\* everything else as it was; observing an order id that is not in the ledger
\* changes nothing.
C9_NoDebounce ==
  [][(call'.n = call.n + 1 /\ call'.op = "update_order_status") =>
       LET i == call'.order_id
       IN /\ i \notin DOMAIN tracked_orders => tracked_orders' = tracked_orders
          /\ (/\ i \in DOMAIN tracked_orders
              /\ tracked_orders[i].status = "active"
              /\ ~call'.still_exists) =>
               /\ DOMAIN tracked_orders' = DOMAIN tracked_orders
               /\ \A j \in DOMAIN tracked_orders \ {i} : tracked_orders'[j] = tracked_orders[j]
               /\ tracked_orders'[i].disappeared_count = tracked_orders[i].disappeared_count + 1
               /\ tracked_orders'[i].status = "disappeared"
               /\ \A f \in DOMAIN tracked_orders[i] \ {"disappeared_count", "status"} :
                    tracked_orders'[i][f] = tracked_orders[i][f]]_vars

\* An active order has just been observed absent for the first time.
C9_Witness ==
  /\ call.op = "update_order_status"
  /\ call.before = "active"
  /\ ~call.still_exists
  /\ call.order_id \in DOMAIN tracked_orders
  /\ tracked_orders[call.order_id].status = "disappeared"
  /\ tracked_orders[call.order_id].disappeared_count = 1

\* C10 -- recreation: for a disappeared order on an active market with holdings at
\* or below dust a reconciliation pass makes exactly one placement call, with the
\* order's token, side, price and size; when the call returns the new id N the
\* ledger afterwards holds the old order as recreated with recreated_as = N and
\* an entry N that is active with disappeared_count 0 and carries the same token,
\* market, side, price and size; the returned count is the number of such calls.
C10_Recreation ==
  [][ReconStep =>
       /\ \A i \in lastRecon'.flagged :
            (/\ tracked_orders[i].market_slug \notin lastRecon'.ended_markets
             /\ lastRecon'.bal[tracked_orders[i].token_id] <= ReconDust) =>
              /\ Cardinality(CallsFor(lastRecon', i)) = 1
              /\ \A c \in CallsFor(lastRecon', i) :
                   /\ c.token_id = tracked_orders[i].token_id
                   /\ c.side = tracked_orders[i].side
                   /\ c.price = tracked_orders[i].price
                   /\ c.size = tracked_orders[i].size
                   /\ c.resp # NoId =>
                        /\ i \in DOMAIN tracked_orders'
                        /\ tracked_orders'[i].status = "recreated"
                        /\ tracked_orders'[i].recreated_as = c.resp
                        /\ c.resp \in DOMAIN tracked_orders' \ DOMAIN tracked_orders
                        /\ tracked_orders'[c.resp].status = "active"
                        /\ tracked_orders'[c.resp].disappeared_count = 0
                        /\ tracked_orders'[c.resp].token_id = tracked_orders[i].token_id
                        /\ tracked_orders'[c.resp].market_slug = tracked_orders[i].market_slug
                        /\ tracked_orders'[c.resp].side = tracked_orders[i].side
                        /\ tracked_orders'[c.resp].price = tracked_orders[i].price
                        /\ tracked_orders'[c.resp].size = tracked_orders[i].size
       /\ lastRecon'.recreated_count =
            Cardinality({c \in lastRecon'.calls : c.resp # NoId})]_vars

\* A pass has just replaced a disappeared order by a new one.
C10_Witness ==
  /\ pc = "exit"
  /\ lastRecon.ran
  /\ lastRecon.recreated_count >= 1
  /\ \E c \in lastRecon.calls :
       /\ c.resp # NoId
       /\ c.for \in DOMAIN tracked_orders
       /\ tracked_orders[c.for].status = "recreated"
       /\ tracked_orders[c.for].recreated_as = c.resp
       /\ tracked_orders[c.resp].status = "active"

\* C11 -- the fill check prevents re-submission: a reconciliation pass makes no
\* placement call for an order that left the venue book because it executed in
\* full, whichever its side.
C11_NoResubmitAfterExecution ==
  [][ReconStep =>
       \A i \in lastRecon'.flagged :
         (/\ i \in DOMAIN vorders
          /\ i \notin open
          /\ vorders[i].matched = vorders[i].original_size) =>
           CallsFor(lastRecon', i) = {}]_vars

\* C12 -- a failed snapshot query skips the pass: when the open-order query of a
\* reconciliation pass fails, the pass lists no order as disappeared, makes no
\* placement call and leaves the ledger as it was.
C12_SnapshotFailureSkipsPass ==
  [][(ReconStep /\ ~lastRecon'.snap_ok) =>
       /\ lastRecon'.flagged = {}
       /\ lastRecon'.calls = {}
       /\ tracked_orders' = tracked_orders]_vars

\* C13 -- tick replay is safe: whatever the point at which a tick is cut short,
\* every order a step places on the venue is in the persisted ledger after the
\* step, so that the re-executed tick knows of it.
C13_PlacedOrderIsRecorded ==
  [][\A i \in DOMAIN vorders' \ DOMAIN vorders : i \in DOMAIN tracked_orders']_vars

\* ------------------------------------------------ the price cache driven directly
\* The operations of PriceCache applied one after the other, with time passing
\* between them; call records the last operation and the price get_cached_price
\* returned for its key before it.
CacheSlugs == {"m1", "m2"}
CacheKeys == {<<"m1", StrongToken("m1")>>, <<"m1", WeakToken("m1")>>,
              <<"m2", StrongToken("m2")>>}
TeamNames == {"teamA", "teamB"}

CacheUnchanged ==
  UNCHANGED <<pc, tracked_orders, pending_markets, already_profitable_markets,
              open, vorders, balance, ended, nextId, lastRecon, lastExit,
              ticks, events, failures>>

PCachePrice(key, price, team_name, dt) ==
  /\ call.n < MaxCacheSteps
  /\ now' = now + dt
  /\ cached_prices' = cache_price(cached_prices, key[1], key[2], price, team_name, now')
  /\ call' = [op |-> "cache_price", slug |-> key[1], token_id |-> key[2],
              price |-> price, team_name |-> team_name,
              before |-> get_cached_price(cached_prices, key[1], key[2]),
              n |-> call.n + 1]
  /\ CacheUnchanged

PClearMarket(slug) ==
  /\ call.n < MaxCacheSteps
  /\ cached_prices' = clear_market(cached_prices, slug)
  /\ call' = [op |-> "clear_market", slug |-> slug, token_id |-> NoToken,
              price |-> NoId, team_name |-> "none", before |-> NoId, n |-> call.n + 1]
  /\ now' = now
  /\ CacheUnchanged

NextCache ==
  \/ \E key \in CacheKeys, price \in StrongPriceSamples, team_name \in TeamNames,
        dt \in {0, 1} : PCachePrice(key, price, team_name, dt)
  \/ \E slug \in CacheSlugs : PClearMarket(slug)

SpecCache == Init /\ [][NextCache]_vars

\* C14 -- write-once cache: a stored entry keeps its price, label and cached_at
\* through every later cache_price call, whatever price or label the call gives,
\* and get_cached_price keeps returning the stored price, until clear_market is
\* called for its market; a first cache_price for a key stores what it was given.
C14_WriteOnceCache ==
  [][/\ \A key \in CacheKeys :
          LET k == CacheKey(key[1], key[2])
          IN k \in DOMAIN cached_prices =>
               \/ call'.op = "clear_market" /\ call'.slug = key[1]
               \/ /\ k \in DOMAIN cached_prices'
                  /\ cached_prices'[k] = cached_prices[k]
                  /\ get_cached_price(cached_prices', key[1], key[2])
                       = cached_prices[k].price
     /\ (call'.op = "cache_price" /\ call'.before = NoId) =>
          /\ get_cached_price(cached_prices', call'.slug, call'.token_id) = call'.price
          /\ cached_prices'[CacheKey(call'.slug, call'.token_id)].team_name = call'.team_name
          /\ cached_prices'[CacheKey(call'.slug, call'.token_id)].cached_at = now']_vars

\* A later cache_price with another price and label, at a later time, has just
\* left the first entry in place.
C14_Witness ==
  /\ call.op = "cache_price"
  /\ call.before # NoId
  /\ call.before # call.price
  /\ get_cached_price(cached_prices, call.slug, call.token_id) = call.before
  /\ cached_prices[CacheKey(call.slug, call.token_id)].team_name # call.team_name
  /\ cached_prices[CacheKey(call.slug, call.token_id)].cached_at < now


\* ------------------------------------------------------------------ C15
\* C15 -- Exit from a cached reference price: after an exit pass, every position
\* record whose (slug, token) has a cached price, whose market is not excluded,
\* whose size less the SELL orders of the snapshot exceeds the dust, which is the
\* first record of its token, whose cached strong-side price is in the balanced
\* band (so the exit rule yields a price) and whose placement the venue accepts,
\* got exactly one SELL order, sized to the unsold amount.
C15_ExitFromCachedPrice ==
  (pc = "gc" /\ lastExit.ran) =>
    \A k \in DOMAIN lastExit.positions :
      LET position == lastExit.positions[k]
          token_id == Get(position, "asset", NoToken)
          market_slug == Get(position, "slug", "unknown")
          position_size == Get(position, "size", 0)
          strong_key == CacheKey(market_slug, StrongToken(market_slug))
      IN (/\ token_id \in Tokens
          /\ market_slug \in Markets
          /\ CacheKey(market_slug, token_id) \in DOMAIN cached_prices
          /\ strong_key \in DOMAIN cached_prices
          /\ cached_prices[strong_key].price <= BalancedMax
          /\ market_slug \notin already_profitable_markets
          /\ position_size >= PositionDust
          /\ position_size - lastExit.seen_sells[token_id] > PositionDust
          /\ \A j \in 1..(k - 1) : Get(lastExit.positions[j], "asset", NoToken) # token_id
          /\ k \notin lastExit.rejected)
         => /\ Cardinality({c \in lastExit.calls : c.k = k}) = 1
            /\ \A c \in lastExit.calls :
                 c.k = k => /\ c.resp # NoId
                            /\ c.size = position_size - lastExit.seen_sells[token_id]


\* ------------------------------------------------------------------ C16
\* The total size of a set of calls of the exit pass.
RECURSIVE SumSizes(_)
SumSizes(cs) ==
  IF cs = {} THEN 0
  ELSE LET c == CHOOSE x \in cs : TRUE IN c.size + SumSizes(cs \ {c})

\* C16 -- No exit order for an excluded, dust or already covered position: every
\* SELL placement of an exit pass is for a record whose market is not excluded,
\* whose size is at least the dust, and whose size less the SELL orders of the
\* snapshot and the SELL orders issued earlier in the pass exceeds the dust; the
\* order is sized to that remainder.
C16_NoExitForExcludedDustCovered ==
  (pc = "gc" /\ lastExit.ran) =>
    \A c \in lastExit.calls :
      LET position == lastExit.positions[c.k]
          market_slug == Get(position, "slug", "unknown")
          position_size == Get(position, "size", 0)
          earlier == {d \in lastExit.calls :
                        d.k < c.k /\ d.token_id = c.token_id /\ d.resp # NoId}
      IN /\ c.token_id = Get(position, "asset", NoToken)
         /\ c.token_id \in Tokens
         /\ market_slug \notin already_profitable_markets
         /\ position_size >= PositionDust
         /\ c.existing = lastExit.seen_sells[c.token_id] + SumSizes(earlier)
         /\ position_size - c.existing > PositionDust
         /\ c.size = position_size - c.existing

\* An exit pass met a record of a non-excluded market whose position is fully
\* covered by the SELL orders of the snapshot, and placed nothing for it.
C16_Witness ==
  /\ pc = "gc" /\ lastExit.ran
  /\ \E k \in DOMAIN lastExit.positions :
       LET position == lastExit.positions[k]
           token_id == Get(position, "asset", NoToken)
           position_size == Get(position, "size", 0)
       IN /\ token_id \in Tokens
          /\ Get(position, "slug", "unknown") \notin already_profitable_markets
          /\ position_size >= PositionDust
          /\ lastExit.seen_sells[token_id] > 0
          /\ position_size - lastExit.seen_sells[token_id] <= PositionDust
          /\ \A c \in lastExit.calls : c.k # k

\* An exit pass met a record of an excluded market with an uncovered position.
C16_SeenExcluded ==
  /\ pc = "gc" /\ lastExit.ran
  /\ \E k \in DOMAIN lastExit.positions :
       /\ Get(lastExit.positions[k], "slug", "unknown") \in already_profitable_markets
       /\ Get(lastExit.positions[k], "size", 0) > PositionDust


\* ------------------------------------------------------------------ C17
ExitStep == pc = "exit" /\ pc' = "gc"

\* A reference price for (market_slug, token_id) exists: cached, or derivable
\* from the ledger (an active or disappeared order of the market carries the
\* strong-side price and an active or disappeared BUY is on the token).
HasReference(ledger, cache, market_slug, token_id) ==
  LET ids == {i \in DOMAIN ledger :
                /\ ledger[i].market_slug = market_slug
                /\ ledger[i].status \in {"active", "disappeared"}}
  IN \/ CacheKey(market_slug, token_id) \in DOMAIN cache
     \/ /\ \E i \in ids : ledger[i].strong_team_price_cents # NoId
        /\ \E i \in ids : ledger[i].token_id = token_id /\ ledger[i].side = "BUY"

\* C17 -- No synthetic price: an exit pass places a SELL only for a record whose
\* (slug, token) has a cached or ledger-derivable reference price, and the pass
\* adds to the ledger exactly the SELL orders the venue accepted, leaving every
\* other entry as it was.
C17_NoSyntheticPrice ==
  [][ExitStep =>
       /\ \A c \in lastExit'.calls :
            HasReference(tracked_orders, cached_prices,
                         Get(lastExit'.positions[c.k], "slug", "unknown"), c.token_id)
       /\ DOMAIN tracked_orders' \ DOMAIN tracked_orders =
            {c.resp : c \in lastExit'.calls} \ {NoId}
       /\ \A i \in DOMAIN tracked_orders :
            i \in DOMAIN tracked_orders' /\ tracked_orders'[i] = tracked_orders[i]]_vars

\* An exit pass met a record of a non-excluded market with an uncovered position
\* and no reference price, and placed nothing for it.
C17_Witness ==
  /\ pc = "gc" /\ lastExit.ran
  /\ \E k \in DOMAIN lastExit.positions :
       LET position == lastExit.positions[k]
           token_id == Get(position, "asset", NoToken)
           market_slug == Get(position, "slug", "unknown")
           position_size == Get(position, "size", 0)
       IN /\ token_id \in Tokens
          /\ market_slug \notin already_profitable_markets
          /\ position_size >= PositionDust
          /\ position_size - lastExit.seen_sells[token_id] > PositionDust
          /\ ~HasReference(tracked_orders, cached_prices, market_slug, token_id)
          /\ \A c \in lastExit.calls : c.k # k


\* ------------------------------------------------ the market queue driven directly
\* The operations of MarketQueue applied one after the other, with time (in
\* minutes) passing between them; call records the last operation, its arguments
\* and what it returned.
QueueSlugs == {"m1", "m2"}
EntryTimeSamples == {1, 3, -1}
MatchStartSamples == {3, 5, -1}
QueueDts == {0, 1, 3, ExpiryMinutes}

QueueUnchanged ==
  UNCHANGED <<pc, tracked_orders, cached_prices, already_profitable_markets,
              open, vorders, balance, ended, nextId, lastRecon, lastExit,
              ticks, events, failures>>

\* The status of the entry of slug, "none" when the queue has no such entry.
StatusIn(queue, slug) ==
  IF slug \in DOMAIN queue THEN queue[slug].status ELSE "none"

QAddPendingMarket(slug, entry_time, match_start_time, dt) ==
  /\ call.n < MaxQueueSteps
  /\ now' = now + dt
  /\ pending_markets' = add_pending_market(pending_markets, slug, entry_time,
                                           match_start_time, now')
  /\ call' = [op |-> "add_pending_market", slug |-> slug, entry_time |-> entry_time,
              match_start_time |-> match_start_time,
              had |-> has_market(pending_markets, slug),
              before |-> StatusIn(pending_markets, slug), ready |-> <<>>,
              n |-> call.n + 1]
  /\ QueueUnchanged

QMarkMarketEntered(slug) ==
  /\ call.n < MaxQueueSteps
  /\ pending_markets' = mark_market_entered(pending_markets, slug)
  /\ call' = [op |-> "mark_market_entered", slug |-> slug, entry_time |-> NoId,
              match_start_time |-> NoId,
              had |-> has_market(pending_markets, slug),
              before |-> StatusIn(pending_markets, slug), ready |-> <<>>,
              n |-> call.n + 1]
  /\ now' = now
  /\ QueueUnchanged

QRemoveMarket(slug) ==
  /\ call.n < MaxQueueSteps
  /\ pending_markets' = remove_market(pending_markets, slug)
  /\ call' = [op |-> "remove_market", slug |-> slug, entry_time |-> NoId,
              match_start_time |-> NoId,
              had |-> has_market(pending_markets, slug),
              before |-> StatusIn(pending_markets, slug), ready |-> <<>>,
              n |-> call.n + 1]
  /\ now' = now
  /\ QueueUnchanged

QGetMarketsReadyForEntry(dt) ==
  /\ call.n < MaxQueueSteps
  /\ now' = now + dt
  /\ pending_markets' = pending_markets
  /\ call' = [op |-> "get_markets_ready_for_entry", slug |-> "none",
              entry_time |-> NoId, match_start_time |-> NoId, had |-> FALSE, before |-> "none",
              ready |-> ReadySlugs(get_markets_ready_for_entry(pending_markets, now')),
              n |-> call.n + 1]
  /\ QueueUnchanged

QCleanupExpiredMarkets(dt) ==
  /\ call.n < MaxQueueSteps
  /\ now' = now + dt
  /\ pending_markets' = cleanup_expired_markets(pending_markets, now')
  /\ call' = [op |-> "cleanup_expired_markets", slug |-> "none",
              entry_time |-> NoId, match_start_time |-> NoId, had |-> FALSE, before |-> "none",
              ready |-> <<>>, n |-> call.n + 1, queue_before |-> pending_markets]
  /\ QueueUnchanged

NextQueue ==
  \/ \E slug \in QueueSlugs, entry_time \in EntryTimeSamples,
        match_start_time \in MatchStartSamples, dt \in QueueDts :
       QAddPendingMarket(slug, entry_time, match_start_time, dt)
  \/ \E slug \in QueueSlugs : QMarkMarketEntered(slug)
  \/ \E slug \in QueueSlugs : QRemoveMarket(slug)
  \/ \E dt \in QueueDts : QGetMarketsReadyForEntry(dt)
  \/ \E dt \in QueueDts : QCleanupExpiredMarkets(dt)

SpecQueue == Init /\ [][NextQueue]_vars

\* ------------------------------------------------------------------ C18
\* C18 -- Idempotent admission: add_pending_market on a slug already in the queue
\* leaves the queue as it was (one entry for the slug, with its entry_time,
\* match_start_time, discovered_at and status, also when the status is entered);
\* on a new slug it inserts one entry with status pending and the given times,
\* and leaves the other entries as they were.
C18_IdempotentAdmission ==
  [][call'.op = "add_pending_market" =>
       IF call'.slug \in DOMAIN pending_markets
       THEN pending_markets' = pending_markets
       ELSE /\ DOMAIN pending_markets' = DOMAIN pending_markets \cup {call'.slug}
            /\ pending_markets'[call'.slug].status = "pending"
            /\ pending_markets'[call'.slug].entry_time = call'.entry_time
            /\ pending_markets'[call'.slug].match_start_time = call'.match_start_time
            /\ pending_markets'[call'.slug].discovered_at = now'
            /\ \A s \in DOMAIN pending_markets :
                 pending_markets'[s] = pending_markets[s]]_vars

\* add_pending_market was called, later and with other times, on a slug whose
\* entry has status entered, and the entry is as it was.
C18_Witness ==
  /\ call.op = "add_pending_market" /\ call.had
  /\ call.slug \in DOMAIN pending_markets
  /\ pending_markets[call.slug].status = "entered"
  /\ pending_markets[call.slug].entry_time # call.entry_time
  /\ pending_markets[call.slug].match_start_time # call.match_start_time
  /\ pending_markets[call.slug].discovered_at < now

\* ------------------------------------------------------------------ C19
\* C19 -- get_markets_ready_for_entry returns exactly the slugs whose entry has
\* status pending, timestamps that parse, entry_time <= now <= entry_time + grace
\* period and now < match_start_time, each once, and leaves the queue as it was.
C19_ReadyForEntry ==
  [][call'.op = "get_markets_ready_for_entry" =>
       LET ready == call'.ready
       IN /\ {ready[k] : k \in DOMAIN ready} =
               {s \in DOMAIN pending_markets :
                  /\ pending_markets[s].status = "pending"
                  /\ pending_markets[s].entry_time >= 0
                  /\ pending_markets[s].match_start_time >= 0
                  /\ pending_markets[s].entry_time <= now'
                  /\ now' <= pending_markets[s].entry_time + GracePeriodMinutes
                  /\ now' < pending_markets[s].match_start_time}
          /\ \A j, k \in DOMAIN ready : ready[j] = ready[k] => j = k
          /\ pending_markets' = pending_markets]_vars

\* get_markets_ready_for_entry returned a slug while the queue also held a
\* pending entry past its grace period but before its match start.
C19_Witness ==
  /\ call.op = "get_markets_ready_for_entry" /\ call.ready # <<>>
  /\ \E s \in DOMAIN pending_markets :
       /\ pending_markets[s].status = "pending"
       /\ pending_markets[s].entry_time >= 0
       /\ now > pending_markets[s].entry_time + GracePeriodMinutes
       /\ now < pending_markets[s].match_start_time

\* get_markets_ready_for_entry returned a slug while the queue also held an
\* entry whose entry_time does not parse.
C19_SeenUnparsable ==
  /\ call.op = "get_markets_ready_for_entry" /\ call.ready # <<>>
  /\ \E s \in DOMAIN pending_markets : pending_markets[s].entry_time < 0


\* ------------------------------------------------------------------ C20
ScanStep == pc = "idle" /\ pc' = "recon"

\* C20 -- Time-gated admission: step 2 of a tick places entry orders for a slug
\* only if the slug is ready for entry in that tick: its queue status before the
\* placement is pending (or it is registered by this tick), now lies within
\* [entry_time, entry_time + grace period] and before match_start_time.  The
\* grace period is taken as GracePeriodMinutes units of the clock of the ticks,
\* which is no shorter than the code's two minutes.
C20_TimeGatedAdmission ==
  [][ScanStep =>
       \A i \in DOMAIN vorders' \ DOMAIN vorders :
         LET slug == vorders'[i].slug
         IN /\ slug \in DOMAIN pending_markets'
            /\ slug \in DOMAIN pending_markets => pending_markets[slug].status = "pending"
            /\ pending_markets'[slug].entry_time <= now
            /\ now <= pending_markets'[slug].entry_time + GracePeriodMinutes
            /\ now < pending_markets'[slug].match_start_time]_vars


\* ------------------------------------------------------------------ C21
\* C21 -- Entered is terminal for the admission gate: across every operation of
\* the queue a slug that stays in the queue with status entered keeps that status
\* (mark_market_entered on it included), get_markets_ready_for_entry returns no
\* slug whose status is entered, and mark_market_entered on a slug that is not in
\* the queue leaves the queue as it was.
C21_EnteredIsTerminal ==
  [][/\ \A s \in DOMAIN pending_markets \cap DOMAIN pending_markets' :
          pending_markets[s].status = "entered" => pending_markets'[s].status = "entered"
     /\ call'.op = "get_markets_ready_for_entry" =>
          \A k \in DOMAIN call'.ready :
            /\ call'.ready[k] \in DOMAIN pending_markets
            /\ pending_markets[call'.ready[k]].status # "entered"
     /\ (call'.op = "mark_market_entered" /\ call'.slug \notin DOMAIN pending_markets) =>
          pending_markets' = pending_markets]_vars

\* mark_market_entered was called on a slug whose status was entered already.
C21_Witness ==
  /\ call.op = "mark_market_entered" /\ call.before = "entered"
  /\ pending_markets[call.slug].status = "entered"

\* get_markets_ready_for_entry was called while an entered slug was inside its
\* entry window, and did not return it.
C21_SeenEnteredInWindow ==
  /\ call.op = "get_markets_ready_for_entry"
  /\ \E s \in DOMAIN pending_markets :
       /\ pending_markets[s].status = "entered"
       /\ pending_markets[s].entry_time >= 0
       /\ pending_markets[s].entry_time <= now
       /\ now <= pending_markets[s].entry_time + GracePeriodMinutes
       /\ now < pending_markets[s].match_start_time
       /\ \A k \in DOMAIN call.ready : call.ready[k] # s


\* ------------------------------------------------------------------ C22
\* C22 -- Entered records the attempt, not the outcome: after step 2 of a tick,
\* every slug for which the tick called place_entry_orders has queue status
\* entered, whether or not the venue accepted any of its entry orders.
C22_EnteredRecordsAttempt ==
  [][ScanStep =>
       \A slug \in call'.attempted :
         /\ slug \in DOMAIN pending_markets'
         /\ pending_markets'[slug].status = "entered"]_vars


\* ------------------------------------------------------------------ C23
\* C23 -- cleanup_expired_markets removes exactly the entries for which
\* now > match_start_time + 1 hour or whose match_start_time does not parse, and
\* keeps every other entry as it was.
C23_ExpireRemovesExactly ==
  [][call'.op = "cleanup_expired_markets" =>
       /\ DOMAIN pending_markets' =
            {s \in DOMAIN pending_markets :
               ~ \/ pending_markets[s].match_start_time < 0
                 \/ now' > pending_markets[s].match_start_time + ExpiryMinutes}
       /\ \A s \in DOMAIN pending_markets' : pending_markets'[s] = pending_markets[s]]_vars

\* cleanup_expired_markets removed an entry more than an hour past its match
\* start and kept another one.
C23_Witness ==
  /\ call.op = "cleanup_expired_markets"
  /\ DOMAIN pending_markets # {}
  /\ \E s \in DOMAIN call.queue_before \ DOMAIN pending_markets :
       /\ call.queue_before[s].match_start_time >= 0
       /\ now > call.queue_before[s].match_start_time + ExpiryMinutes

\* cleanup_expired_markets removed an entry whose match start does not parse.
C23_SeenUnparsable ==
  /\ call.op = "cleanup_expired_markets"
  /\ \E s \in DOMAIN call.queue_before \ DOMAIN pending_markets :
       call.queue_before[s].match_start_time < 0


\* --------------------------------------------- the three stores and their files
\* The mutating operations of OrderMonitor, MarketQueue and PriceCache applied one
\* after the other, each followed by the save its code makes; call.files holds
\* what the three files contain, as a later load would read it, and the outcome
\* of a save is an input of the step.
NoFile == [readable |-> TRUE, data |-> EmptyMap]
Files ==
  IF "files" \in DOMAIN call THEN call.files
  ELSE [orders |-> NoFile, queue |-> NoFile, cache |-> NoFile]

\* open(path, 'w') followed by json.dump inside try/except: the file gets the
\* store; or open raises and the file keeps its content; or the dump raises after
\* open has truncated the file, which no longer loads.  The exception is printed
\* and swallowed in each case.
WriteOutcomes == {"written", "unwritten", "truncated"}
WriteFile(file, store, outcome) ==
  IF outcome = "written" THEN [readable |-> TRUE, data |-> store]
  ELSE IF outcome = "unwritten" THEN file
  ELSE [readable |-> FALSE, data |-> EmptyMap]

save_tracked_orders(file, ledger, outcome) == WriteFile(file, ledger, outcome)
save_queue(file, queue, outcome) == WriteFile(file, queue, outcome)
save_cache(file, cache, outcome) == WriteFile(file, cache, outcome)

StoreDts == {0, 1, 2 * ExpiryMinutes}

StoreUnchanged ==
  UNCHANGED <<pc, already_profitable_markets, open, vorders, balance, ended,
              nextId, lastRecon, lastExit, ticks, events>>

\* One operation on the ledger: ledger2 is the ledger it leaves in memory, saves
\* tells whether its code reaches _save_tracked_orders.
OnLedger(op, ledger2, saves, outcome, dt) ==
  /\ call.n < MaxStoreSteps
  /\ outcome # "written" => saves /\ failures < MaxFailures
  /\ failures' = failures + (IF outcome = "written" THEN 0 ELSE 1)
  /\ now' = now + dt
  /\ tracked_orders' = ledger2
  /\ call' = [op |-> op, n |-> call.n + 1,
              files |-> [Files EXCEPT !.orders =
                           IF saves THEN save_tracked_orders(@, ledger2, outcome) ELSE @]]
  /\ UNCHANGED <<pending_markets, cached_prices>>
  /\ StoreUnchanged

OnQueue(op, queue2, saves, outcome, dt) ==
  /\ call.n < MaxStoreSteps
  /\ outcome # "written" => saves /\ failures < MaxFailures
  /\ failures' = failures + (IF outcome = "written" THEN 0 ELSE 1)
  /\ now' = now + dt
  /\ pending_markets' = queue2
  /\ call' = [op |-> op, n |-> call.n + 1,
              files |-> [Files EXCEPT !.queue =
                           IF saves THEN save_queue(@, queue2, outcome) ELSE @]]
  /\ UNCHANGED <<tracked_orders, cached_prices>>
  /\ StoreUnchanged

OnCache(op, cache2, saves, outcome, dt) ==
  /\ call.n < MaxStoreSteps
  /\ outcome # "written" => saves /\ failures < MaxFailures
  /\ failures' = failures + (IF outcome = "written" THEN 0 ELSE 1)
  /\ now' = now + dt
  /\ cached_prices' = cache2
  /\ call' = [op |-> op, n |-> call.n + 1,
              files |-> [Files EXCEPT !.cache =
                           IF saves THEN save_cache(@, cache2, outcome) ELSE @]]
  /\ UNCHANGED <<tracked_orders, pending_markets>>
  /\ StoreUnchanged

SAddOrder(order_id, outcome) ==
  OnLedger("add_order",
           add_order(tracked_orders, order_id, StrongToken("m1"), "m1", "BUY",
                     2500, EntrySizeUsd \div 2500, 1, 5500, now),
           TRUE, outcome, 0)

SUpdateOrderStatus(order_id, still_exists, outcome) ==
  OnLedger("update_order_status",
           update_order_status(tracked_orders, order_id, still_exists, now),
           order_id \in DOMAIN tracked_orders, outcome, 0)

SMarkOrderFilled(order_id, outcome) ==
  OnLedger("mark_order_filled", mark_order_filled(tracked_orders, order_id),
           order_id \in DOMAIN tracked_orders, outcome, 0)

SMarkOrderRecreated(old_order_id, new_order_id, outcome) ==
  /\ old_order_id # new_order_id
  /\ OnLedger("mark_order_recreated",
              mark_order_recreated(tracked_orders, old_order_id, new_order_id),
              old_order_id \in DOMAIN tracked_orders, outcome, 0)

SRemoveOrder(order_id, outcome) ==
  OnLedger("remove_order", remove_order(tracked_orders, order_id),
           order_id \in DOMAIN tracked_orders, outcome, 0)

SCleanupOldOrders(outcome, dt) ==
  LET ledger2 == cleanup_old_orders(tracked_orders, DaysOld, now + dt)
  IN OnLedger("cleanup_old_orders", ledger2,
              DOMAIN ledger2 # DOMAIN tracked_orders, outcome, dt)

SAddPendingMarket(slug, outcome) ==
  OnQueue("add_pending_market", add_pending_market(pending_markets, slug, 3, 3, now),
          ~has_market(pending_markets, slug), outcome, 0)

SMarkMarketEntered(slug, outcome) ==
  OnQueue("mark_market_entered", mark_market_entered(pending_markets, slug),
          slug \in DOMAIN pending_markets, outcome, 0)

SRemoveMarket(slug, outcome) ==
  OnQueue("remove_market", remove_market(pending_markets, slug),
          slug \in DOMAIN pending_markets, outcome, 0)

SCleanupExpiredMarkets(outcome, dt) ==
  LET queue2 == cleanup_expired_markets(pending_markets, now + dt)
  IN OnQueue("cleanup_expired_markets", queue2,
             DOMAIN queue2 # DOMAIN pending_markets, outcome, dt)

SCachePrice(key, price, outcome) ==
  OnCache("cache_price", cache_price(cached_prices, key[1], key[2], price, "teamA", now),
          CacheKey(key[1], key[2]) \notin DOMAIN cached_prices, outcome, 0)

SClearMarket(slug, outcome) ==
  LET cache2 == clear_market(cached_prices, slug)
  IN OnCache("clear_market", cache2, DOMAIN cache2 # DOMAIN cached_prices, outcome, 0)

NextStore ==
  \/ \E i \in LedgerIds, outcome \in WriteOutcomes : SAddOrder(i, outcome)
  \/ \E i \in LedgerIds, b \in BOOLEAN, outcome \in WriteOutcomes :
       SUpdateOrderStatus(i, b, outcome)
  \/ \E i \in LedgerIds, outcome \in WriteOutcomes : SMarkOrderFilled(i, outcome)
  \/ \E i \in LedgerIds, j \in LedgerIds, outcome \in WriteOutcomes :
       SMarkOrderRecreated(i, j, outcome)
  \/ \E i \in LedgerIds, outcome \in WriteOutcomes : SRemoveOrder(i, outcome)
  \/ \E outcome \in WriteOutcomes, dt \in StoreDts : SCleanupOldOrders(outcome, dt)
  \/ \E slug \in QueueSlugs, outcome \in WriteOutcomes : SAddPendingMarket(slug, outcome)
  \/ \E slug \in QueueSlugs, outcome \in WriteOutcomes : SMarkMarketEntered(slug, outcome)
  \/ \E slug \in QueueSlugs, outcome \in WriteOutcomes : SRemoveMarket(slug, outcome)
  \/ \E outcome \in WriteOutcomes, dt \in StoreDts : SCleanupExpiredMarkets(outcome, dt)
  \/ \E key \in CacheKeys, price \in StrongPriceSamples, outcome \in WriteOutcomes :
       SCachePrice(key, price, outcome)
  \/ \E slug \in CacheSlugs, outcome \in WriteOutcomes : SClearMarket(slug, outcome)

SpecStore == Init /\ [][NextStore]_vars

\* Each file loads as the store in memory.
FilesMatchMemory ==
  /\ Files.orders.readable /\ Files.orders.data = tracked_orders
  /\ Files.queue.readable /\ Files.queue.data = pending_markets
  /\ Files.cache.readable /\ Files.cache.data = cached_prices

\* ------------------------------------------------------------------ C24
\* C24 -- Flush on mutation: on return from every mutating operation of the
\* queue, the ledger and the price cache, each persisted store equals the store
\* in memory.
C24_FlushOnMutation == call.op # "none" => FilesMatchMemory

\* As long as no write has failed, the files match the stores in memory.
C24_FlushedWhenWritten == failures = 0 => FilesMatchMemory


\* ------------------------------------------------------------------ C25
\* The reconciliation pass recon, which left the ledger as ledger, dealt with the
\* disappeared order j: it removed it with its ended market, or marked it filled
\* on the balance it read, or made a placement call for it.
Processed(recon, ledger, j) ==
  IF j \notin DOMAIN ledger THEN TRUE
  ELSE \/ ledger[j].status = "filled"
       \/ CallsFor(recon, j) # {}

\* C25 -- Failure isolation: when the placement call for a disappeared order
\* fails in a reconciliation pass, the pass still deals with every other
\* disappeared order, the failed order keeps status disappeared, the ledger gains
\* no entry for it (the new entries are the orders the venue accepted), and the
\* pass returns.
C25_FailureIsolation ==
  [][ReconStep =>
       \A i \in lastRecon'.flagged :
         (\E c \in CallsFor(lastRecon', i) : c.resp = NoId) =>
           /\ lastRecon'.ran
           /\ i \in DOMAIN tracked_orders'
           /\ tracked_orders'[i].status = "disappeared"
           /\ tracked_orders'[i].recreated_as = tracked_orders[i].recreated_as
           /\ DOMAIN tracked_orders' \ DOMAIN tracked_orders =
                {c.resp : c \in lastRecon'.calls} \ {NoId}
           /\ \A j \in lastRecon'.flagged \ {i} :
                Processed(lastRecon', tracked_orders', j)]_vars

\* A reconciliation pass had a placement fail for one disappeared order and
\* recreated a later one.
C25_Witness ==
  /\ pc = "exit" /\ lastRecon.ran
  /\ \E i \in lastRecon.flagged, j \in lastRecon.flagged :
       /\ i < j
       /\ \E c \in CallsFor(lastRecon, i) : c.resp = NoId
       /\ \E c \in CallsFor(lastRecon, j) : c.resp # NoId
       /\ tracked_orders[i].status = "disappeared"
       /\ tracked_orders[j].status = "recreated"


\* ------------------------------------------------------------------ C26
\* C26 -- One attempt per pass: a reconciliation pass makes at most one placement
\* call for each disappeared order and none for any other order, and the count
\* it returns is the number of its placement calls that succeeded.
C26_OneAttemptPerPass ==
  [][ReconStep =>
       /\ \A c \in lastRecon'.calls : c.for \in lastRecon'.flagged
       /\ \A i \in lastRecon'.flagged : Cardinality(CallsFor(lastRecon', i)) <= 1
       /\ lastRecon'.recreated_count =
            Cardinality({c \in lastRecon'.calls : c.resp # NoId})]_vars

\* A reconciliation pass over two disappeared orders made one placement call for
\* each, of which one succeeded, and returned 1.
C26_Witness ==
  /\ pc = "exit" /\ lastRecon.ran
  /\ Cardinality(lastRecon.flagged) = 2
  /\ Cardinality(lastRecon.calls) = 2
  /\ lastRecon.recreated_count = 1


\* ------------------------------------------------------------------ C27
\* The steps of a tick in their order; the last pair is the process dying in the
\* reconciliation pass and being started again.
TickOrder ==
  {<<"idle", "recon">>, <<"recon", "exit">>, <<"exit", "gc">>, <<"gc", "idle">>,
   <<"recon", "idle">>}

\* C27 -- Tick ordering: the steps of a tick follow one another in order; the
\* exit-decision pass runs only after the reconciliation pass of the same tick
\* has returned; a tick begins only when the previous one has finished, with no
\* pass of it under way.
C27_TickOrdering ==
  [][/\ pc' # pc => <<pc, pc'>> \in TickOrder
     /\ (lastRecon'.ran /\ lastRecon' # lastRecon) => pc = "recon"
     /\ (lastExit'.ran /\ lastExit' # lastExit) => (pc = "exit" /\ lastRecon.ran)
     /\ ticks' # ticks =>
          /\ pc = "idle" /\ pc' = "recon" /\ ticks' = ticks + 1
          /\ ~lastRecon.ran /\ ~lastExit.ran]_vars

\* The second tick is between its reconciliation pass, which recreated an order,
\* and its exit-decision pass.
C27_Witness ==
  /\ pc = "exit" /\ ticks = 2
  /\ lastRecon.ran /\ lastRecon.recreated_count > 0
  /\ ~lastExit.ran


\* ------------------------------------------ the reconciliation pass tick after tick
\* The bot enters a market once; the venue then drops one of its orders, executes
\* orders, or the market ends; and reconciliation passes follow one another, one
\* per tick, for as long as the venue has an order id to give.  The other steps
\* of a tick leave the status of a disappeared order as it is and are left out.
\* call.n counts the passes; a pass whose placements the venue rejects is taken
\* at most MaxRetryTicks times, and the pass whose placements it accepts is taken
\* eventually.
RetryUnchanged ==
  UNCHANGED <<pc, now, cached_prices, already_profitable_markets, balance, ended,
              lastExit, ticks, events, failures>>

RStart(live) ==
  /\ pc = "idle" /\ nextId = 1
  /\ LET scan == ScanLoop(SlugSeq(Markets), cached_prices, <<>>, live, {}, now)
         r == EntryLoop(scan.markets, Work, get_open_orders(open, TRUE), Tokens,
                        Markets \X {1, 2}, now)
     IN /\ tracked_orders' = r.ledger
        /\ pending_markets' = r.queue
        /\ open' = r.open
        /\ vorders' = r.vorders
        /\ nextId' = r.nextId
  /\ UNCHANGED <<lastRecon, call>>
  /\ RetryUnchanged

RDrop(i) == events = 0 /\ nextId > 1 /\ VenueDrop(i)
RFill(i) == nextId > 1 /\ VenueFill(i)
RMarketEnds(m) == nextId > 1 /\ MarketEnds(m)

RetryTick(rejected) ==
  /\ pc = "idle" /\ nextId > 1 /\ nextId <= MaxOrders
  /\ LET r == check_and_recreate_orders(Work, TRUE, Markets, Tokens,
                                        OrderIds \ rejected, now)
     IN /\ tracked_orders' = r.ledger
        /\ pending_markets' = r.queue
        /\ open' = r.open
        /\ vorders' = r.vorders
        /\ nextId' = r.nextId
        /\ lastRecon' = [ran |-> TRUE, snap_ok |-> TRUE, seen |-> r.seen,
                         flagged |-> r.flagged, ended_markets |-> r.ended_markets,
                         bal |-> balance, calls |-> r.calls,
                         recreated_count |-> r.recreated_count]
  /\ call' = [NoCall EXCEPT !.op = "check_and_recreate_orders", !.n = call.n + 1]
  /\ RetryUnchanged

RetryTickRejected(rejected) ==
  /\ call.n < MaxRetryTicks
  /\ rejected # {} /\ rejected \subseteq Flagged(TRUE)
  /\ RetryTick(rejected)

RetryTickAccepted ==
  /\ call.n <= MaxRetryTicks
  /\ RetryTick({})

NextRetry ==
  \/ \E live \in [Markets -> StrongPriceSamples] : RStart(live)
  \/ \E i \in OrderIds : RDrop(i)
  \/ \E i \in OrderIds : RFill(i)
  \/ \E m \in Markets : RMarketEnds(m)
  \/ \E rejected \in SUBSET OrderIds : RetryTickRejected(rejected)
  \/ RetryTickAccepted

\* The accepted pass is a total function of the state, and it always moves
\* call.n: it is enabled exactly when its guard holds.
RetryTickAcceptedEnabled ==
  pc = "idle" /\ nextId > 1 /\ nextId <= MaxOrders /\ call.n <= MaxRetryTicks

\* Weak fairness of the accepted pass, WF_vars(RetryTickAccepted), with ENABLED
\* written out as RetryTickAcceptedEnabled: the loop of run() keeps ticking, and
\* the venue accepts in the end.
SpecRetry ==
  /\ Init /\ [][NextRetry]_vars
  /\ ([]<>(~RetryTickAcceptedEnabled) \/ []<><<RetryTickAccepted>>_vars)

\* ------------------------------------------------------------------ C28
\* C28 -- Retry until resolved: every reconciliation pass makes exactly one
\* placement call for each order that is disappeared and still off the book,
\* unless it removes the order with its ended market or marks it filled; and, the
\* passes going on and the venue accepting in the end, an order with status
\* disappeared eventually leaves that status: recreated, removed or marked filled.
C28_RetryUntilResolved ==
  /\ [][call'.n # call.n =>
          \A i \in DOMAIN tracked_orders :
            (tracked_orders[i].status = "disappeared" /\ i \notin open) =>
              \/ i \notin DOMAIN tracked_orders'
              \/ tracked_orders'[i].status = "filled"
              \/ Cardinality(CallsFor(lastRecon', i)) = 1]_vars
  /\ \A i \in OrderIds :
       (i \in DOMAIN tracked_orders /\ tracked_orders[i].status = "disappeared")
         ~> \/ i \notin DOMAIN tracked_orders
            \/ tracked_orders[i].status \in {"recreated", "filled"}

\* An order was recreated after its recreation had failed in two passes.
C28_Witness ==
  \E i \in DOMAIN tracked_orders :
    /\ tracked_orders[i].status = "recreated"
    /\ tracked_orders[i].disappeared_count >= 3
    /\ call.op = "check_and_recreate_orders"


\* ------------------------------------------------------------------ C29
\* C29 -- An order is dropped as ended only when its market is confirmed
\* inactive: a reconciliation pass removes an order from the ledger, and a slug
\* from the queue, only when the market has ended; when the market-status lookup
\* fails, the disappeared order and its slug stay.
C29_DropOnlyWhenConfirmedInactive ==
  [][ReconStep =>
       /\ \A i \in DOMAIN tracked_orders \ DOMAIN tracked_orders' :
            tracked_orders[i].market_slug \in ended
       /\ \A slug \in DOMAIN pending_markets \ DOMAIN pending_markets' :
            slug \in ended]_vars


\* ------------------------------------------------------------------ C30
\* C30 -- Ended-market drop: after a reconciliation pass every order the pass
\* found disappeared and whose market it found inactive is absent from the
\* ledger, its slug is absent from the queue, and no placement call was made for
\* it; the ended-market check comes before the fill check, so the order is
\* removed, not marked filled, whatever the holdings of its token.
C30_EndedMarketDrop ==
  [][ReconStep =>
       \A i \in lastRecon'.flagged :
         tracked_orders[i].market_slug \in lastRecon'.ended_markets =>
           /\ i \notin DOMAIN tracked_orders'
           /\ tracked_orders[i].market_slug \notin DOMAIN pending_markets'
           /\ CallsFor(lastRecon', i) = {}]_vars

\* A pass removed a disappeared order of an inactive market while the holdings
\* of its token exceeded dust.
C30_Witness ==
  /\ pc = "exit" /\ lastRecon.ran
  /\ \E i \in lastRecon.flagged :
       /\ i \notin DOMAIN tracked_orders
       /\ vorders[i].slug \in lastRecon.ended_markets
       /\ vorders[i].slug \in ended
       /\ lastRecon.bal[vorders[i].asset_id] > ReconDust


\* ------------------------------------------------------------------ C31
\* C31 -- Exit after fills: an exit pass that meets an uncovered position of a
\* non-excluded market, with no cached price for it, whose two BUY entries the
\* venue executed and the ledger holds as filled with a strong-side price in the
\* two-tier range, makes a take-profit placement call for the token.
C31_ExitAfterFills ==
  [][ExitStep =>
       \A k \in DOMAIN lastExit'.positions :
         LET position == lastExit'.positions[k]
             token_id == Get(position, "asset", NoToken)
             market_slug == Get(position, "slug", "unknown")
             position_size == Get(position, "size", 0)
             filled == {i \in DOMAIN tracked_orders :
                          /\ tracked_orders[i].market_slug = market_slug
                          /\ tracked_orders[i].token_id = token_id
                          /\ tracked_orders[i].side = "BUY"
                          /\ tracked_orders[i].status = "filled"}
         IN (/\ token_id \in Tokens
             /\ CacheKey(market_slug, token_id) \notin DOMAIN cached_prices
             /\ market_slug \notin already_profitable_markets
             /\ position_size >= PositionDust
             /\ position_size - lastExit'.seen_sells[token_id] > PositionDust
             /\ {tracked_orders[i].entry_number : i \in filled} = {1, 2}
             /\ \A i \in filled :
                  /\ i \notin open
                  /\ vorders[i].matched = vorders[i].original_size
                  /\ tracked_orders[i].strong_team_price_cents > BalancedMax
                  /\ tracked_orders[i].strong_team_price_cents <= NoTpAbove)
            => \E c \in lastExit'.calls : c.token_id = token_id]_vars


\* ------------------------------------------------------------------ C32
\* The placement calls of an exit pass that succeeded.
Placed(exit) == {c \in exit.calls : c.resp # NoId}

\* C32 -- Every SELL an exit pass places successfully is in the ledger after the
\* pass as an active SELL of the unsold quantity, and its size is in the
\* accumulator every later record of the token is measured against; a failed
\* placement adds no ledger entry, leaves the accumulator as it was and is not
\* counted in the number the pass returns.
C32_SellRecorded ==
  [][ExitStep =>
       /\ \A c \in lastExit'.calls :
            LET earlier == {d \in Placed(lastExit') :
                              d.token_id = c.token_id /\ d.k < c.k}
            IN /\ c.existing = lastExit'.seen_sells[c.token_id] + SumSizes(earlier)
               /\ c.size = Get(lastExit'.positions[c.k], "size", 0) - c.existing
               /\ c.resp # NoId =>
                    /\ c.resp \in DOMAIN tracked_orders' \ DOMAIN tracked_orders
                    /\ tracked_orders'[c.resp].status = "active"
                    /\ tracked_orders'[c.resp].side = "SELL"
                    /\ tracked_orders'[c.resp].token_id = c.token_id
                    /\ tracked_orders'[c.resp].price = c.price
                    /\ tracked_orders'[c.resp].size = c.size
       /\ DOMAIN tracked_orders' \ DOMAIN tracked_orders =
            {c.resp : c \in Placed(lastExit')}
       /\ lastExit'.tp_placed = Cardinality(Placed(lastExit'))]_vars

\* An exit pass whose placement for one record failed and whose placement for a
\* later record of the same token succeeded against the same accumulator.
C32_Witness ==
  /\ pc = "gc" /\ lastExit.ran
  /\ lastExit.tp_placed = 1
  /\ \E c \in lastExit.calls : \E d \in lastExit.calls :
       /\ c.resp = NoId /\ d.resp # NoId
       /\ c.token_id = d.token_id /\ c.k < d.k
       /\ d.existing = c.existing
       /\ d.resp \in DOMAIN tracked_orders


\* ------------------------------------------- the take-profit table driven directly
\* EntryStrategy.calculate_take_profit_orders applied to sampled arguments, next
\* to the rule of the exit pass for the same arguments.  Prices are in hundredths
\* of a cent on both sides: the table's start price in cents, divided by 100 to
\* dollars, is the same number of hundredths of a cent.

\* A variant of calculate_take_profit_orders that counts the filled entries, not
\* their distinct entry numbers.
calculate_take_profit_orders_Len(filled_entries, strong_team_start_price_cents, total_position_size) ==
  IF strong_team_start_price_cents > TableNoTpAbove THEN <<>>
  ELSE IF Len(filled_entries) = 1 THEN <<>>
  ELSE IF Len(filled_entries) >= 2
       THEN <<[price |-> strong_team_start_price_cents, size |-> total_position_size]>>
       ELSE <<>>

\* EntryStrategy.calculate_take_profit_orders: the list of TP order specs.
calculate_take_profit_orders(filled_entries, strong_team_start_price_cents, total_position_size) ==
  LET entry_numbers == {filled_entries[k].entry_number : k \in 1..Len(filled_entries)}
      num_entries_filled == Cardinality(entry_numbers)
  IN IF strong_team_start_price_cents > TableNoTpAbove THEN <<>>
     ELSE IF num_entries_filled = 1 THEN <<>>
     ELSE IF num_entries_filled >= 2
          THEN <<[price |-> strong_team_start_price_cents, size |-> total_position_size]>>
          ELSE <<>>

\* Start prices: every whole cent from 0 to 100, and fractions of a cent next to
\* the thresholds of the two rules.
StartPriceSamples == {100 * c : c \in 0..100} \cup {6050, 7001, 7050, 7501}
FilledEntry(n, p) == [entry_number |-> n, price |-> p]
FilledEntriesSamples ==
  {<<>>, <<FilledEntry(1, 4300)>>, <<FilledEntry(2, 3000)>>,
   <<FilledEntry(1, 4300), FilledEntry(2, 3000)>>,
   <<FilledEntry(1, 4300), FilledEntry(1, 4300)>>}
PositionSizeSamples == {813, 1979}

TpUnchanged ==
  UNCHANGED <<pc, now, tracked_orders, pending_markets, cached_prices,
              already_profitable_markets, open, vorders, balance, ended, nextId,
              lastRecon, lastExit, ticks, events, failures>>

TCalculateTakeProfitOrders(filled_entries, stp, size) ==
  /\ call' = [op |-> "calculate_take_profit_orders", filled_entries |-> filled_entries,
              strong_team_start_price_cents |-> stp, total_position_size |-> size,
              result |-> calculate_take_profit_orders(filled_entries, stp, size),
              n |-> 1]
  /\ TpUnchanged

NextTp ==
  \E filled_entries \in FilledEntriesSamples, stp \in StartPriceSamples,
     size \in PositionSizeSamples : TCalculateTakeProfitOrders(filled_entries, stp, size)

SpecTp == Init /\ [][NextTp]_vars

\* ------------------------------------------------------------------ C34
\* C34 -- calculate_take_profit_orders returns no order when the start price is
\* above 70 cents or fewer than two distinct entry numbers are filled; otherwise
\* it returns exactly one order, priced at the start price and sized to the
\* whole position.
C34_TakeProfitTable ==
  call.op = "calculate_take_profit_orders" =>
    LET distinct == {call.filled_entries[k].entry_number :
                       k \in 1..Len(call.filled_entries)}
    IN IF call.strong_team_start_price_cents > 7000 \/ Cardinality(distinct) < 2
       THEN call.result = <<>>
       ELSE /\ Len(call.result) = 1
            /\ call.result[1].price = call.strong_team_start_price_cents
            /\ call.result[1].size = call.total_position_size

\* The table was asked about two filled entries with the same entry number at a
\* start price of at most 70 cents, and returned nothing.
C34_Witness ==
  /\ call.op = "calculate_take_profit_orders"
  /\ Len(call.filled_entries) = 2
  /\ call.filled_entries[1].entry_number = call.filled_entries[2].entry_number
  /\ call.strong_team_start_price_cents <= 7000
  /\ call.result = <<>>

\* The table returned an order at exactly 70 cents.
C34_SeenOrderAtThreshold ==
  /\ call.op = "calculate_take_profit_orders"
  /\ call.strong_team_start_price_cents = 7000
  /\ Len(call.result) = 1


\* ------------------------------------------------------------------ C33
\* The decision of the exit pass (steps 4-5 of check_filled_positions_and_set_tp)
\* for a position whose filled BUY entries and strong-side price are given: the
\* exit price, or NoId for no exit.  The entry price is that of the last entry.
ExitDecision(filled_entries, strong_team_price_cents) ==
  IF filled_entries = <<>> THEN NoId
  ELSE TpPrice([found |-> TRUE,
                price |-> filled_entries[Len(filled_entries)].price,
                strong_team_price_cents |-> strong_team_price_cents,
                filled_entry_numbers |->
                  {filled_entries[k].entry_number : k \in 1..Len(filled_entries)}])

\* The decision the table's result stands for: its order's price, or NoId.
TableDecision(tp_orders) == IF tp_orders = <<>> THEN NoId ELSE tp_orders[1].price

\* C33 -- The exit decision of the exit pass (no exit, or an exit price) equals
\* the result of calculate_take_profit_orders for the same reference price and
\* the same filled entry tiers, for every reference price from 0 to 100 cents
\* and zero, one or two tiers.
C33_ExitDecisionIsTable ==
  call.op = "calculate_take_profit_orders" =>
    ExitDecision(call.filled_entries, call.strong_team_start_price_cents)
      = TableDecision(call.result)


\* --------------------------------------------------- ticks that keep running
\* The loop of run() with nothing to stop it: the four steps of a tick follow one
\* another for ever, every external call succeeds, and days pass between ticks up
\* to MaxNow.  A tick that finds nothing to do brings the state back to where it
\* was, so the loop needs no tick count.
TickUnchanged ==
  UNCHANGED <<already_profitable_markets, balance, ended, lastRecon, lastExit, call,
              ticks, events, failures>>

EScanAndPlace(live, windowed) ==
  /\ pc = "idle"
  /\ LET scan == ScanLoop(SlugSeq(Markets), cached_prices, <<>>, live, windowed, now)
         r == EntryLoop(scan.markets, Work, get_open_orders(open, TRUE), Tokens,
                        Markets \X {1, 2}, now)
     IN /\ cached_prices' = scan.cache
        /\ tracked_orders' = r.ledger
        /\ pending_markets' = r.queue
        /\ open' = r.open
        /\ vorders' = r.vorders
        /\ nextId' = r.nextId
  /\ pc' = "recon"
  /\ now' = now
  /\ TickUnchanged

ECheckAndRecreate ==
  /\ pc = "recon"
  /\ LET r == check_and_recreate_orders(Work, TRUE, Markets, Tokens, OrderIds, now)
     IN /\ tracked_orders' = r.ledger
        /\ pending_markets' = r.queue
        /\ open' = r.open
        /\ vorders' = r.vorders
        /\ nextId' = r.nextId
  /\ pc' = "exit"
  /\ UNCHANGED <<now, cached_prices>>
  /\ TickUnchanged

ECheckFilledAndSetTp ==
  /\ pc = "exit"
  /\ LET positions == DataApiPositions(TokenSeq, balance)
         r == check_filled_positions_and_set_tp(Work, positions, TRUE,
                                                already_profitable_markets,
                                                cached_prices, 1..Len(positions), now)
     IN /\ tracked_orders' = r.ledger
        /\ open' = r.open
        /\ vorders' = r.vorders
        /\ nextId' = r.nextId
  /\ pc' = "gc"
  /\ UNCHANGED <<now, pending_markets, cached_prices>>
  /\ TickUnchanged

ECleanupOldOrders ==
  /\ pc = "gc"
  /\ tracked_orders' = cleanup_old_orders(tracked_orders, DaysOld, now)
  /\ pc' = "idle"
  /\ UNCHANGED <<now, pending_markets, cached_prices, open, vorders, nextId>>
  /\ TickUnchanged

\* A day passes in the sleep between two ticks.
ESleep ==
  /\ pc = "idle"
  /\ now < MaxNow
  /\ now' = now + 1
  /\ UNCHANGED <<pc, tracked_orders, pending_markets, cached_prices, open, vorders,
                 nextId>>
  /\ TickUnchanged

NextTicks ==
  \/ \E live \in [Markets -> StrongPriceSamples], windowed \in SUBSET Markets :
       EScanAndPlace(live, windowed)
  \/ ECheckAndRecreate
  \/ ECheckFilledAndSetTp
  \/ ECleanupOldOrders
  \/ ESleep

\* Some first step of a tick.
EScanAndPlaceAny ==
  \E live \in [Markets -> StrongPriceSamples], windowed \in SUBSET Markets :
    EScanAndPlace(live, windowed)

\* The loop of run() never stops: the sleep ends, and each step of a tick that is
\* due is taken.  Every step of a tick is a total function of the state and moves
\* pc, so it is enabled exactly when pc stands at it; its weak fairness is written
\* with that guard in the place of ENABLED.
SpecTicks ==
  /\ Init /\ [][NextTicks]_vars
  /\ WF_vars(ESleep)
  /\ ([]<>(pc # "idle") \/ []<><<EScanAndPlaceAny>>_vars)
  /\ ([]<>(pc # "recon") \/ []<><<ECheckAndRecreate>>_vars)
  /\ ([]<>(pc # "exit") \/ []<><<ECheckFilledAndSetTp>>_vars)
  /\ ([]<>(pc # "gc") \/ []<><<ECleanupOldOrders>>_vars)

\* ------------------------------------------------------------------ C35
\* now is later than one hour after the match start of the entry (now and the
\* match start in days, the horizon in minutes).
PastHorizon(entry, t) ==
  /\ Parsable(entry.match_start_time)
  /\ t * 24 * 60 > entry.match_start_time * 24 * 60 + ExpiryMinutes

\* C35 -- Queue expiry happens: while ticks keep running, an entry of the queue
\* whose match started more than an hour ago is eventually removed from the
\* queue.
C35_QueueExpiryHappens ==
  \A slug \in Markets :
    (slug \in DOMAIN pending_markets /\ PastHorizon(pending_markets[slug], now))
      ~> (slug \notin DOMAIN pending_markets)


\* ------------------------------------------------------------------ C36
\* A step that is the ledger cleanup of a tick (step 6).
GcStep == pc = "gc" /\ pc' = "idle"

\* C36 -- The ledger cleanup removes exactly the tracked orders whose status is
\* neither active nor disappeared and that were created more than the age (7
\* days) ago; it never removes an active or disappeared order, whatever its age,
\* and leaves every remaining order unchanged.
C36_GarbageCollect ==
  [][GcStep =>
       /\ \A i \in DOMAIN tracked_orders :
            i \notin DOMAIN tracked_orders' <=>
              /\ tracked_orders[i].status \notin {"active", "disappeared"}
              /\ now - tracked_orders[i].created_at > 7
       /\ \A i \in DOMAIN tracked_orders' :
            i \in DOMAIN tracked_orders /\ tracked_orders'[i] = tracked_orders[i]]_vars

\* A tick in which no call failed and no market had ended has finished with an
\* order of the venue gone from the ledger, which only the cleanup can have
\* removed, and with an active or disappeared order older than 7 days kept.
C36_Witness ==
  /\ pc = "idle" /\ failures = 0 /\ ended = {}
  /\ DOMAIN vorders \ DOMAIN tracked_orders # {}
  /\ \E j \in DOMAIN tracked_orders :
       /\ tracked_orders[j].status \in {"active", "disappeared"}
       /\ now - tracked_orders[j].created_at > 7


\* ------------------------------------------------------------------ C37
\* C37 -- mark_order_filled, mark_order_recreated and remove_order are
\* idempotent: the ledger a call leaves is the ledger a second call with the
\* same arguments leaves, and a call for an order id that is not in the ledger
\* leaves the ledger as it was.
C37_Idempotent ==
  [][/\ call'.op = "mark_order_filled" =>
          /\ tracked_orders' = mark_order_filled(tracked_orders, call'.order_id)
          /\ mark_order_filled(tracked_orders', call'.order_id) = tracked_orders'
     /\ call'.op = "mark_order_recreated" =>
          /\ tracked_orders' = mark_order_recreated(tracked_orders, call'.order_id,
                                                    call'.new_order_id)
          /\ mark_order_recreated(tracked_orders', call'.order_id, call'.new_order_id)
               = tracked_orders'
     /\ call'.op = "remove_order" =>
          /\ tracked_orders' = remove_order(tracked_orders, call'.order_id)
          /\ remove_order(tracked_orders', call'.order_id) = tracked_orders'
     /\ (/\ call'.op \in {"mark_order_filled", "mark_order_recreated", "remove_order"}
         /\ call'.order_id \notin DOMAIN tracked_orders) =>
          tracked_orders' = tracked_orders]_vars

\* mark_order_recreated has just been applied to an order it had already marked,
\* in a ledger that holds the order.
C37_Witness ==
  /\ call.op = "mark_order_recreated"
  /\ call.before = "recreated"
  /\ call.order_id \in DOMAIN tracked_orders
  /\ tracked_orders[call.order_id].recreated_as = call.new_order_id

\* remove_order has just been applied to an order id the ledger did not hold,
\* while it held another order.
C37_SeenMissingId ==
  /\ call.op = "remove_order"
  /\ call.before = "none"
  /\ tracked_orders # EmptyMap


\* ------------------------------------------------------------------ C38
\* C38 -- Reference price survives recreation: the ledger entry a reconciliation
\* pass records for a replacement order carries the token, market, side, price,
\* size, entry number and strong-side reference price of the order it replaces.
C38_ReferenceSurvivesRecreation ==
  [][ReconStep =>
       \A c \in lastRecon'.calls :
         c.resp # NoId =>
           /\ c.resp \in DOMAIN tracked_orders'
           /\ \A f \in {"token_id", "market_slug", "side", "price", "size",
                        "entry_number", "strong_team_price_cents"} :
                tracked_orders'[c.resp][f] = tracked_orders[c.for][f]]_vars


\* ------------------------------------------------------------------ C39
\* The queries of a reconciliation pass all succeeded: the snapshot was read, the
\* markets the pass found inactive are the ended markets of its disappeared
\* orders, and the holdings it read are the holdings.
QueriesSucceeded(recon, ledger) ==
  /\ recon.ran /\ recon.snap_ok
  /\ recon.ended_markets = {ledger[i].market_slug : i \in recon.flagged} \cap ended
  /\ \A tok \in Tokens : recon.bal[tok] = balance[tok]

\* C39 -- After a reconciliation pass whose snapshot, market-status and balance
\* queries all succeeded, every ledger order with status disappeared is one
\* whose placement call failed in that pass; none is left disappeared whose
\* market has ended or whose token holdings exceed dust.
C39_DisappearedMeansFailedCall ==
  [][(ReconStep /\ QueriesSucceeded(lastRecon', tracked_orders)) =>
       \A i \in DOMAIN tracked_orders' :
         tracked_orders'[i].status = "disappeared" =>
           /\ \E c \in CallsFor(lastRecon', i) : c.resp = NoId
           /\ tracked_orders'[i].market_slug \notin ended
           /\ balance[tracked_orders'[i].token_id] <= ReconDust]_vars

\* A pass whose queries all succeeded left one order disappeared after a failed
\* placement call and recreated another.
C39_Witness ==
  /\ pc = "exit" /\ lastRecon.snap_ok /\ lastRecon.ran
  /\ lastRecon.ended_markets = {} /\ ended = {}
  /\ \A tok \in Tokens : lastRecon.bal[tok] = balance[tok]
  /\ \E i \in lastRecon.flagged : \E j \in lastRecon.flagged :
       /\ i \in DOMAIN tracked_orders /\ tracked_orders[i].status = "disappeared"
       /\ \E c \in CallsFor(lastRecon, i) : c.resp = NoId
       /\ j \in DOMAIN tracked_orders /\ tracked_orders[j].status = "recreated"
       /\ \E c \in CallsFor(lastRecon, j) : c.resp # NoId


\* ------------------------------------------ the keys of the price cache
\* The operations of PriceCache applied one after the other to slugs of which one
\* is a prefix of another and one contains the separator; call records the last
\* operation, its slug and token, what has_cached_price returned, and the cache
\* before the call.
KeySlugs == {"a", "ab", "a:b"}
KeyTokens == {<<"t1">>, <<"t2">>}

KCall(op, slug, token_id, result) ==
  [op |-> op, slug |-> slug, token_id |-> token_id, result |-> result,
   cache_before |-> cached_prices, n |-> call.n + 1]

KCachePrice(slug, token_id) ==
  /\ call.n < MaxKeySteps
  /\ cached_prices' = cache_price(cached_prices, slug, token_id, 5500, "teamA", now)
  /\ call' = KCall("cache_price", slug, token_id, FALSE)
  /\ now' = now
  /\ CacheUnchanged

KHasCachedPrice(slug) ==
  /\ call.n < MaxKeySteps
  /\ call' = KCall("has_cached_price", slug, NoToken,
                   has_cached_price(cached_prices, slug))
  /\ UNCHANGED <<now, cached_prices>>
  /\ CacheUnchanged

KClearMarket(slug) ==
  /\ call.n < MaxKeySteps
  /\ cached_prices' = clear_market(cached_prices, slug)
  /\ call' = KCall("clear_market", slug, NoToken, FALSE)
  /\ now' = now
  /\ CacheUnchanged

NextKeys ==
  \/ \E slug \in KeySlugs, token_id \in KeyTokens : KCachePrice(slug, token_id)
  \/ \E slug \in KeySlugs : KHasCachedPrice(slug)
  \/ \E slug \in KeySlugs : KClearMarket(slug)

SpecKeys == Init /\ [][NextKeys]_vars

\* ------------------------------------------------------------------ C40
\* The keys of the slug stored in a cache.
KeysOf(cache, slug) == {CacheKey(slug, tok) : tok \in KeyTokens} \cap DOMAIN cache

\* C40 -- Cache keys are isolated per market: has_cached_price(slug) is true
\* exactly when a key of that very slug is stored, and clear_market(slug) removes
\* exactly the keys of that slug and leaves every other entry unchanged, also
\* when one slug is a prefix of another or contains the separator.
C40_KeysIsolatedPerMarket ==
  /\ call.op = "has_cached_price" =>
       (call.result <=> KeysOf(call.cache_before, call.slug) # {})
  /\ call.op = "clear_market" =>
       /\ DOMAIN cached_prices
            = DOMAIN call.cache_before \ KeysOf(call.cache_before, call.slug)
       /\ \A k \in DOMAIN cached_prices : cached_prices[k] = call.cache_before[k]

====
